---- MODULE Spec2Model ----
(***************************************************************************)
(* HeartDB LiveQuery: the query-subscription diffing engine                *)
(* (src/src/live-query.ts) on top of a document store with a live change   *)
(* feed (src/src/heartdb.ts).                                              *)
(***************************************************************************)
EXTENDS Integers, Sequences, FiniteSets, TLC

\* ------------------------------------------------------------------------
\* Bounds of the model.
\* ------------------------------------------------------------------------
NumIds == 2
MaxWrites == 2
MaxSetQuery == 2
DefaultLimit == 1

\* Document ids, in the store's collation order.
AllIds == <<"d1", "d2", "d3", "d4">>
IdSeq == SubSeq(AllIds, 1, NumIds)
Ids == {AllIds[i] : i \in 1..NumIds}
IdRank(id) == CHOOSE i \in 1..Len(AllIds) : AllIds[i] = id

\* Values of the one application field of a document.
FieldVals == {0, 1}

\* The absent query (setQuery(undefined)) and the absent listener handle.
NoQuery == "none"
NoListener == 0

EmptyDocs == [k \in {} |-> k]

Min(a, b) == IF a < b THEN a ELSE b

\* ------------------------------------------------------------------------
\* Queries. selF is the set of field values the selector admits, selId the
\* selector's condition on _id, limit = 0 an unset limit. A query is an
\* object; the program compares queries by reference, so the model names
\* each query object and keeps its content apart.
\*   A: selector {f: 1}, no limit, no skip.
\*   B: selector {_id: {$gte: "d2"}}, limit 1.
\*   C: selector {f: 1}, skip 1.
\*   D: selector {f: {$gte: 0}}, limit 1 (used where paging is checked on
\*      its own).
\* ------------------------------------------------------------------------
QueryRefs == {"A", "B", "C"}
PagingQueryRefs == QueryRefs \cup {"D"}
QueryDef(q) ==
  CASE q = "A" -> [selF |-> {1}, selId |-> [op |-> "none", id |-> "d1"],
                   limit |-> 0, skip |-> 0]
    [] q = "B" -> [selF |-> FieldVals, selId |-> [op |-> "gte", id |-> "d2"],
                   limit |-> 1, skip |-> 0]
    [] q = "C" -> [selF |-> {1}, selId |-> [op |-> "none", id |-> "d1"],
                   limit |-> 0, skip |-> 1]
    [] q = "D" -> [selF |-> FieldVals, selId |-> [op |-> "none", id |-> "d1"],
                   limit |-> 1, skip |-> 0]

\* ------------------------------------------------------------------------
\* The storage engine (PouchDB with pouchdb-find), as the program uses it.
\* store[id] = [rev, deleted, f]; rev = 0: the document never existed.
\* ------------------------------------------------------------------------
SelectorMatches(sel, id, f) ==
  /\ f \in sel.selF
  /\ CASE sel.selId.op = "none" -> TRUE
       [] sel.selId.op = "gte" -> IdRank(id) >= IdRank(sel.selId.id)
       [] sel.selId.op = "eq" -> id = sel.selId.id

StoredMatches(st, sel, id) ==
  /\ st[id].rev > 0
  /\ ~st[id].deleted
  /\ SelectorMatches(sel, id, st[id].f)

StoredDoc(st, id) ==
  [_id |-> id, _rev |-> st[id].rev, _deleted |-> st[id].deleted, f |-> st[id].f]

\* Mutant: find returns every matching document after skip, whatever the
\* limit.
FindUnlimited(st, req) ==
  LET all == SelectSeq(IdSeq, LAMBDA id : StoredMatches(st, req, id))
      page == SubSeq(all, req.skip + 1, Len(all))
  IN  [i \in 1..Len(page) |-> StoredDoc(st, page[i])]

\* find(request): the matching documents in id order, after skip, at most
\* limit of them (the engine's default limit when the request has none).
Find(st, req) ==
  LET all == SelectSeq(IdSeq, LAMBDA id : StoredMatches(st, req, id))
      lim == IF req.limit = 0 THEN DefaultLimit ELSE req.limit
      page == SubSeq(all, req.skip + 1, Min(Len(all), req.skip + lim))
  IN  [i \in 1..Len(page) |-> StoredDoc(st, page[i])]

\* ------------------------------------------------------------------------
\* processDocs: the diff-and-emit core (live-query.ts, processDocs).
\* ------------------------------------------------------------------------
MapPut(m, k, v) == [x \in DOMAIN m \cup {k} |-> IF x = k THEN v ELSE m[x]]
MapDel(m, k) == [x \in DOMAIN m \ {k} |-> m[x]]

\* A dispatched event: its type, its detail, and the value of this.docs at
\* the moment of dispatch (what a listener reading liveQuery.docs sees).
Event(type, detail, docsAt) ==
  [type |-> type, detail |-> detail, docsAt |-> docsAt]

EmptyBuckets ==
  [enterDocs |-> EmptyDocs, enterCount |-> 0,
   updateDocs |-> EmptyDocs, updateCount |-> 0,
   exitDocs |-> EmptyDocs, exitCount |-> 0,
   unchangedDocs |-> EmptyDocs]

\* One iteration of the categorising loop.
CategorizeOne(cur, doc, b) ==
  IF doc._id \notin DOMAIN cur
  THEN IF doc._deleted
       THEN b
       ELSE [b EXCEPT !.enterDocs = MapPut(@, doc._id, doc),
                      !.enterCount = @ + 1]
  ELSE IF doc._deleted
       THEN [b EXCEPT !.exitDocs = MapPut(@, doc._id, doc),
                      !.exitCount = @ + 1]
       ELSE IF doc._rev # cur[doc._id]._rev
            THEN [b EXCEPT !.updateDocs = MapPut(@, doc._id, doc),
                           !.updateCount = @ + 1]
            ELSE [b EXCEPT !.unchangedDocs = MapPut(@, doc._id, doc)]

RECURSIVE Categorize(_, _, _)
Categorize(cur, incoming, b) ==
  IF incoming = <<>>
  THEN b
  ELSE Categorize(cur, Tail(incoming), CategorizeOne(cur, Head(incoming), b))

\* Mutant: replace leaves the held documents that are not incoming.
ReplaceExitsNone(cur, b) == b

\* With replace, every held document that is neither updated nor unchanged
\* joins the exit bucket.
ReplaceExits(cur, b) ==
  LET stale == {id \in DOMAIN cur :
                  id \notin DOMAIN b.updateDocs /\ id \notin DOMAIN b.unchangedDocs}
  IN  [b EXCEPT !.exitDocs = [k \in DOMAIN b.exitDocs \cup stale |->
                               IF k \in stale THEN cur[k] ELSE b.exitDocs[k]],
                !.exitCount = @ + Cardinality(stale)]

\* Mutant: the short-circuit is never taken.
ShortCircuitNever(b) == FALSE

\* !enterCount && !updateCount && !exitCount
ShortCircuit(b) == b.enterCount = 0 /\ b.updateCount = 0 /\ b.exitCount = 0

\* Mutant: the enter event is dispatched before the exit event.
BucketEventsEnterFirst(cur, b) ==
  (IF b.enterCount # 0 THEN <<Event("enter", b.enterDocs, cur)>> ELSE <<>>)
  \o (IF b.exitCount # 0 THEN <<Event("exit", b.exitDocs, cur)>> ELSE <<>>)
  \o (IF b.updateCount # 0 THEN <<Event("update", b.updateDocs, cur)>> ELSE <<>>)

\* The exit, enter and update events, in dispatch order.
BucketEvents(cur, b) ==
  (IF b.exitCount # 0 THEN <<Event("exit", b.exitDocs, cur)>> ELSE <<>>)
  \o (IF b.enterCount # 0 THEN <<Event("enter", b.enterDocs, cur)>> ELSE <<>>)
  \o (IF b.updateCount # 0 THEN <<Event("update", b.updateDocs, cur)>> ELSE <<>>)

\* Mutant: this.docs becomes the enter bucket alone.
ApplyBucketsEnterOnly(cur, b) == b.enterDocs

\* The record of documents after the enter, update and exit buckets are applied.
ApplyBuckets(cur, b) ==
  LET added == [k \in DOMAIN cur \cup DOMAIN b.enterDocs \cup DOMAIN b.updateDocs |->
                  IF k \in DOMAIN b.updateDocs THEN b.updateDocs[k]
                  ELSE IF k \in DOMAIN b.enterDocs THEN b.enterDocs[k]
                  ELSE cur[k]]
  IN  [k \in DOMAIN added \ DOMAIN b.exitDocs |-> added[k]]

\* Mutant: the afterchange event is dispatched before this.docs is updated.
ProcessDocsEarlyAfterChange(cur, incoming, replace) ==
  LET b0 == Categorize(cur, incoming, EmptyBuckets)
      b == IF replace THEN ReplaceExits(cur, b0) ELSE b0
  IN  IF ShortCircuit(b)
      THEN [docs |-> cur, events |-> <<>>]
      ELSE [docs |-> ApplyBuckets(cur, b),
            events |-> BucketEvents(cur, b) \o <<Event("afterchange", cur, cur)>>]

\* processDocs(incomingDocs, replace): the new this.docs and the events
\* dispatched, in order.
ProcessDocs(cur, incoming, replace) ==
  LET b0 == Categorize(cur, incoming, EmptyBuckets)
      b == IF replace THEN ReplaceExits(cur, b0) ELSE b0
      new == ApplyBuckets(cur, b)
  IN  IF ShortCircuit(b)
      THEN [docs |-> cur, events |-> <<>>]
      ELSE [docs |-> new,
            events |-> BucketEvents(cur, b) \o <<Event("afterchange", new, new)>>]

\* ------------------------------------------------------------------------
\* State.
\* ------------------------------------------------------------------------
VARIABLES
  store,       \* the storage engine's documents
  feed,        \* committed changes the live change feed has yet to report
  nWrites,     \* number of writes committed so far
  query,       \* LiveQuery.query (NoQuery: undefined)
  docs,        \* LiveQuery.docs
  disconnect,  \* LiveQuery.disconnect: the listener it releases (NoListener: undefined)
  closed,      \* LiveQuery.closed
  listeners,   \* HeartDB's "change" listeners, in registration order
  tasks,       \* suspended async continuations (setQuery pagers, point queries)
  nSet,        \* number of setQuery calls that changed the query so far
  errors,      \* InternalErrors thrown so far
  rejected,    \* continuations whose promise a failed find has rejected
  lastOp,      \* history: the operation that acted last
  lastEvents,  \* history: the events that operation dispatched, in order
  docsSrc,     \* history: for each held document, the query whose find produced it
  pre          \* history: the LiveQuery's state before that operation

\* A CloseableEventTarget on its own (closeable-event-target.ts).
VARIABLES
  cetListeners,  \* CloseableEventTarget.listeners: per event type, its callbacks in insertion order
  cetClosed,     \* CloseableEventTarget.closed
  cetHandles,    \* the disconnect functions addEventListener has returned so far
  cetFired,      \* the re-entrant close listeners that have called close()
  nCetOps,       \* number of calls made on the event target so far
  cetOp,         \* history: the call that acted last and what it threw
  cetLog,        \* history: the listeners that call notified, in order
  cetPre         \* history: the event target's fields before that call

cetVars == <<cetListeners, cetClosed, cetHandles, cetFired, nCetOps, cetOp,
             cetLog, cetPre>>

\* HeartDB instances over one database (heartdb.ts): the change bus and the
\* put and post calls of the first instance.
VARIABLES
  busShared,     \* whether the feed of one context reports the writes made in another
  busStore,      \* the database: the current revision of each document (0: absent)
  nBusWrites,    \* number of writes committed so far; a write's seq
  busFeed,       \* per instance: committed changes its live feed has yet to report
  busChannel,    \* per instance: broadcast messages its channel has yet to deliver
  busListeners,  \* per instance: its "change" listeners in registration order
  busCalls,      \* the put and post calls made so far on the first instance
  busLog,        \* history, per instance: the changes its client listener has received
  busPosted,     \* history: the postMessage calls so far, as <<instance, seq>>
  busOp          \* history: the step that acted last

busVars == <<busShared, busStore, nBusWrites, busFeed, busChannel, busListeners,
             busCalls, busLog, busPosted, busOp>>

\* A LiveDoc following one document of a HeartDB (live-doc.ts).
VARIABLES
  ldStore,      \* the database: revision and deletion flag of the followed document
  ldFeed,       \* committed changes the HeartDB has yet to dispatch
  ldGet,        \* the initial heartDb.get(docId): how far it has come and what it read
  ldDoc,        \* LiveDoc.doc
  ldClosed,     \* LiveDoc.closed
  ldConnected,  \* the LiveDoc's change listener is on the HeartDB
  ldDbClosed,   \* HeartDB.closed
  ldPut,        \* a put of the followed document through the HeartDB
  nLdWrites,    \* number of writes committed so far
  nLdRefs,      \* number of document objects created so far
  ldOp,         \* history: the step that acted last and the value it handed to setDoc
  ldEvents,     \* history: the details of the set events that step dispatched
  ldPre         \* history: doc and closed before that step

ldVars == <<ldStore, ldFeed, ldGet, ldDoc, ldClosed, ldConnected, ldDbClosed,
            ldPut, nLdWrites, nLdRefs, ldOp, ldEvents, ldPre>>

\* The variables of the LiveQuery and the HeartDB it is created on.
liveQueryVars ==
  <<store, feed, nWrites, query, docs, disconnect, closed, listeners,
    tasks, nSet, errors, rejected, lastOp, lastEvents, docsSrc, pre>>

\* The variables of the parts a LiveQuery run leaves alone.
otherVars == <<cetVars, busVars, ldVars>>

vars == <<liveQueryVars, otherVars>>

\* ------------------------------------------------------------------------
\* CloseableEventTarget (closeable-event-target.ts): the listener registry
\* every HeartDB, LiveQuery and LiveDoc inherits.
\* ------------------------------------------------------------------------
MaxCetOps == 4

EventTypes == {"close", "change"}
Callbacks == {"cb1", "cb2"}

\* The close listeners that call close() on the target themselves, the first
\* time they are notified.
Reentrant == {"cb2"}

NoError == "none"
ClosedError == "Event target is closed."
DuplicateError == "Listener already added."

NoListeners == [type \in EventTypes |-> <<>>]

RECURSIVE InSeq(_, _)
InSeq(x, s) == IF s = <<>> THEN FALSE ELSE Head(s) = x \/ InSeq(x, Tail(s))

RegisteredAnyType(ls, type, cb) == \E ty \in EventTypes : InSeq(cb, ls[ty])

\* listeners?.has(callback): the callback is registered for this type.
Registered(ls, type, cb) == InSeq(cb, ls[type])

\* addEventListener(type, callback): the registry afterwards and what the
\* call threw. The platform's own listener list is updated on the same
\* lines, so the registry stands for it as well.
AddEventListener(ls, isClosed, type, cb) ==
  IF isClosed THEN [listeners |-> ls, thrown |-> ClosedError]
  ELSE IF Registered(ls, type, cb)
       THEN [listeners |-> ls, thrown |-> DuplicateError]
       ELSE [listeners |-> [ls EXCEPT ![type] = Append(@, cb)],
             thrown |-> NoError]

\* removeEventListener(type, callback).
RemoveEventListener(ls, isClosed, type, cb) ==
  IF isClosed THEN [listeners |-> ls, thrown |-> ClosedError]
  ELSE [listeners |-> [ls EXCEPT ![type] = SelectSeq(@, LAMBDA c : c # cb)],
        thrown |-> NoError]

\* removeAllEventListeners(): removeEventListener for every entry.
RemoveAllEventListeners(st) ==
  IF st.listeners = NoListeners THEN st
  ELSE IF st.closed THEN [st EXCEPT !.thrown = ClosedError]
       ELSE [st EXCEPT !.listeners = NoListeners]

\* The event target while a call runs: its fields, the listeners notified so
\* far and what the call threw.
CetState(ls, isClosed, fired) ==
  [listeners |-> ls, closed |-> isClosed, fired |-> fired, log |-> <<>>,
   thrown |-> NoError]

\* dispatchEvent(new Event(type)) is the platform's: it walks the listeners
\* the type had when the dispatch began and skips those removed meanwhile;
\* it does not look at closed. A re-entrant close listener calls close().
RECURSIVE DispatchEvent(_, _, _)
RECURSIVE CloseTarget(_)
DispatchEvent(st, type, snapshot) ==
  IF snapshot = <<>> THEN st
  ELSE LET cb == Head(snapshot)
           present == Registered(st.listeners, type, cb)
           told == IF present
                   THEN [st EXCEPT !.log = Append(@, <<type, cb>>)]
                   ELSE st
           after == IF present /\ type = "close" /\ cb \in Reentrant
                        /\ cb \notin st.fired
                    THEN CloseTarget([told EXCEPT !.fired = @ \cup {cb}])
                    ELSE told
       IN  DispatchEvent(after, type, Tail(snapshot))

\* close().
CloseTarget(st) ==
  IF st.closed THEN st
  ELSE LET d == DispatchEvent(st, "close", st.listeners["close"])
           r == RemoveAllEventListeners(d)
       IN  [r EXCEPT !.closed = TRUE]

CetSnapshot == [listeners |-> cetListeners, closed |-> cetClosed]
CetCall(op, type, cb, thrown) ==
  [op |-> op, type |-> type, cb |-> cb, thrown |-> thrown]

CetIdle ==
  /\ cetListeners = NoListeners
  /\ cetClosed = FALSE
  /\ cetHandles = {}
  /\ cetFired = {}
  /\ nCetOps = 0
  /\ cetOp = CetCall("init", "", "", NoError)
  /\ cetLog = <<>>
  /\ cetPre = [listeners |-> NoListeners, closed |-> FALSE]

\* A client calls addEventListener (or onClose) and keeps the disconnect
\* function it returns.
CetAdd(type, cb) ==
  /\ nCetOps < MaxCetOps
  /\ LET r == AddEventListener(cetListeners, cetClosed, type, cb)
     IN  /\ cetListeners' = r.listeners
         /\ cetHandles' = IF r.thrown = NoError
                          THEN cetHandles \cup {<<type, cb>>}
                          ELSE cetHandles
         /\ cetOp' = CetCall("add", type, cb, r.thrown)
  /\ nCetOps' = nCetOps + 1
  /\ cetLog' = <<>>
  /\ cetPre' = CetSnapshot
  /\ UNCHANGED <<cetClosed, cetFired>>
  /\ UNCHANGED <<liveQueryVars, busVars, ldVars>>

\* A client calls a disconnect function it was given: the closure calls
\* removeEventListener(type, callback).
CetDisconnect(h) ==
  /\ nCetOps < MaxCetOps
  /\ LET r == RemoveEventListener(cetListeners, cetClosed, h[1], h[2])
     IN  /\ cetListeners' = r.listeners
         /\ cetOp' = CetCall("disconnect", h[1], h[2], r.thrown)
  /\ nCetOps' = nCetOps + 1
  /\ cetLog' = <<>>
  /\ cetPre' = CetSnapshot
  /\ UNCHANGED <<cetClosed, cetHandles, cetFired>>
  /\ UNCHANGED <<liveQueryVars, busVars, ldVars>>

\* A client (or the subclass) calls dispatchEvent with a change event.
CetDispatch ==
  /\ nCetOps < MaxCetOps
  /\ LET r == DispatchEvent(CetState(cetListeners, cetClosed, cetFired),
                            "change", cetListeners["change"])
     IN  /\ cetLog' = r.log
         /\ cetOp' = CetCall("dispatch", "change", "", r.thrown)
  /\ nCetOps' = nCetOps + 1
  /\ cetPre' = CetSnapshot
  /\ UNCHANGED <<cetListeners, cetClosed, cetHandles, cetFired>>
  /\ UNCHANGED <<liveQueryVars, busVars, ldVars>>

\* A client calls close().
CetClose ==
  /\ nCetOps < MaxCetOps
  /\ LET r == CloseTarget(CetState(cetListeners, cetClosed, cetFired))
     IN  /\ cetListeners' = r.listeners
         /\ cetClosed' = r.closed
         /\ cetFired' = r.fired
         /\ cetLog' = r.log
         /\ cetOp' = CetCall("close", "close", "", r.thrown)
  /\ nCetOps' = nCetOps + 1
  /\ cetPre' = CetSnapshot
  /\ UNCHANGED cetHandles
  /\ UNCHANGED <<liveQueryVars, busVars, ldVars>>

\* ------------------------------------------------------------------------
\* HeartDB (heartdb.ts): the change bus, put and post.
\* ------------------------------------------------------------------------
MaxBusWrites == 2
MaxCalls == 2

\* The HeartDB instances attached to the database; they share the name of
\* the broadcast channel. Clients call put and post on the first one.
Contexts == {1, 2}
Caller == 1

\* The ids callers choose for put; post has the engine assign a fresh one.
BusDocIds == {1}
PostId(cid) == 0 - cid
NoId == 0

NoChange == [seq |-> 0, id |-> NoId, rev |-> 0]
ConflictError == "conflict"
PostError == "post failed"

\* A registered "change" listener: a client's, or the one a put or post call
\* added for itself.
ClientListener == [kind |-> "client", cid |-> 0]
CallListener(kind, cid) == [kind |-> kind, cid |-> cid]

\* A put or post call: its arguments and locals (post: postResponse,
\* changeQueue, disconnect), how far the engine's write has come (pc), how
\* its promise settled and with what, and (history) the seq of its own write.
Call(kind, id, rev) ==
  [kind |-> kind, id |-> id, rev |-> rev, pc |-> "writing",
   settled |-> "pending", value |-> NoChange, error |-> NoError,
   postResponse |-> NoId, changeQueue |-> <<>>, disconnect |-> TRUE,
   own |-> 0]

\* resolve(change) and reject(error): a settled promise stays as it is.
Resolve(c, change) ==
  IF c.settled = "pending"
  THEN [c EXCEPT !.settled = "resolved", !.value = change] ELSE c
Reject(c, error) ==
  IF c.settled = "pending"
  THEN [c EXCEPT !.settled = "rejected", !.error = error] ELSE c

\* The disconnect function onChange returned to call cid.
BusDisconnect(ls, cid) == SelectSeq(ls, LAMBDA l : l.cid # cid)

\* The first instance while a handler runs: its listeners, the calls, what
\* the client listener has received and whether the handler threw.
BusState(ls, calls) ==
  [listeners |-> ls, calls |-> calls, log |-> <<>>, thrown |-> FALSE]

\* put's listener: the first change for the document's id resolves the call.
PutListener(st, cid, change) ==
  IF change.id = st.calls[cid].id
  THEN [st EXCEPT !.calls[cid] = Resolve(@, change),
                  !.listeners = BusDisconnect(@, cid)]
  ELSE st

PostMatchesAny(change, response) == TRUE

\* changeEvent.detail.id === postResponse.id
PostMatches(change, response) == change.id = response

\* post's handleChange.
HandleChange(st, cid, change) ==
  LET c == st.calls[cid]
  IN  IF c.postResponse = NoId \/ ~c.disconnect
      THEN [st EXCEPT !.thrown = TRUE]
      ELSE IF PostMatches(change, c.postResponse)
           THEN [st EXCEPT !.listeners = BusDisconnect(@, cid),
                           !.calls[cid] =
                              Resolve([c EXCEPT !.disconnect = FALSE], change)]
           ELSE st

\* post's listener: handle the change when the response is known, queue it
\* otherwise. What it throws is reported by the dispatch, not passed on.
PostListener(st, cid, change) ==
  IF st.calls[cid].postResponse # NoId
  THEN [HandleChange(st, cid, change) EXCEPT !.thrown = FALSE]
  ELSE [st EXCEPT !.calls[cid].changeQueue = Append(@, change)]

\* this.dispatchEvent(new ChangeEvent(change)): the listeners registered when
\* the dispatch begins are notified in order, those removed meanwhile are
\* skipped.
RECURSIVE DispatchChangeEvent(_, _, _)
DispatchChangeEvent(st, snapshot, change) ==
  IF snapshot = <<>> THEN st
  ELSE LET l == Head(snapshot)
           next ==
             IF ~InSeq(l, st.listeners) THEN st
             ELSE IF l.kind = "client"
                  THEN [st EXCEPT !.log = Append(@, change)]
                  ELSE IF l.kind = "put" THEN PutListener(st, l.cid, change)
                       ELSE PostListener(st, l.cid, change)
       IN  DispatchChangeEvent(next, Tail(snapshot), change)

\* post's then handler: the queued changes are handled in arrival order; an
\* error thrown by handleChange ends the loop.
RECURSIVE ReplayQueue(_, _, _)
ReplayQueue(st, cid, queue) ==
  IF queue = <<>> \/ st.thrown THEN st
  ELSE ReplayQueue(HandleChange(st, cid, Head(queue)), cid, Tail(queue))

\* The catch handler of put: disconnect(); reject(error).
PutCatch(st, cid, error) ==
  [st EXCEPT !.listeners = BusDisconnect(@, cid),
             !.calls[cid] = Reject(@, error)]

\* The catch handler of post: disconnect?.(); disconnect = undefined;
\* reject(error).
PostCatch(st, cid, error) ==
  LET c == st.calls[cid]
  IN  [st EXCEPT !.listeners = IF c.disconnect THEN BusDisconnect(@, cid) ELSE @,
                 !.calls[cid] = Reject([c EXCEPT !.disconnect = FALSE], error)]

BusStep(op, ctx, seq, cid, posted) ==
  [op |-> op, ctx |-> ctx, seq |-> seq, cid |-> cid, posted |-> posted]

BusIdle ==
  /\ busShared = FALSE
  /\ busStore = [id \in BusDocIds |-> 0]
  /\ nBusWrites = 0
  /\ busFeed = [c \in Contexts |-> <<>>]
  /\ busChannel = [c \in Contexts |-> <<>>]
  /\ busListeners = [c \in Contexts |-> <<ClientListener>>]
  /\ busCalls = <<>>
  /\ busLog = [c \in Contexts |-> <<>>]
  /\ busPosted = <<>>
  /\ busOp = BusStep("init", 0, 0, 0, 0)

\* The engine commits a write made in context ctx: the feed of that context
\* reports it, and so does every other feed when the feeds are shared.
BusCommit(ctx, id, rev) ==
  LET change == [seq |-> nBusWrites + 1, id |-> id, rev |-> rev]
  IN  /\ nBusWrites < MaxBusWrites
      /\ nBusWrites' = nBusWrites + 1
      /\ busStore' = [k \in DOMAIN busStore \cup {id} |->
                        IF k = id THEN rev ELSE busStore[k]]
      /\ busFeed' = [c \in Contexts |->
                       IF c = ctx \/ busShared
                       THEN Append(busFeed[c], change) ELSE busFeed[c]]

\* put(doc) up to the engine's answer: the listener is added, the write
\* is handed to the engine.
PutCall(id, rev) ==
  /\ Len(busCalls) < MaxCalls
  /\ busCalls' = Append(busCalls, Call("put", id, rev))
  /\ busListeners' = [busListeners EXCEPT
                        ![Caller] = Append(@, CallListener("put", Len(busCalls) + 1))]
  /\ busOp' = BusStep("put", Caller, 0, Len(busCalls) + 1, 0)
  /\ UNCHANGED <<busShared, busStore, nBusWrites, busFeed, busChannel, busLog,
                 busPosted>>
  /\ UNCHANGED <<liveQueryVars, cetVars, ldVars>>

\* post(doc) up to the engine's answer.
PostCall ==
  /\ Len(busCalls) < MaxCalls
  /\ busCalls' = Append(busCalls, Call("post", NoId, 0))
  /\ busListeners' = [busListeners EXCEPT
                        ![Caller] = Append(@, CallListener("post", Len(busCalls) + 1))]
  /\ busOp' = BusStep("post", Caller, 0, Len(busCalls) + 1, 0)
  /\ UNCHANGED <<busShared, busStore, nBusWrites, busFeed, busChannel, busLog,
                 busPosted>>
  /\ UNCHANGED <<liveQueryVars, cetVars, ldVars>>

\* The engine accepts the write of a put or post call: the document's
\* revision is the one the caller based the write on.
EngineCommits(cid) ==
  LET c == busCalls[cid]
      id == IF c.kind = "put" THEN c.id ELSE PostId(cid)
  IN  /\ c.pc = "writing"
      /\ c.kind = "put" => busStore[id] = c.rev
      /\ BusCommit(Caller, id, c.rev + 1)
      /\ busCalls' = [busCalls EXCEPT ![cid].pc = "written",
                                      ![cid].own = nBusWrites + 1]
      /\ busOp' = BusStep("commit", Caller, nBusWrites + 1, cid, 0)
      /\ UNCHANGED <<busShared, busChannel, busListeners, busLog, busPosted>>
      /\ UNCHANGED <<liveQueryVars, cetVars, ldVars>>

\* The engine refuses the write (put: the revision is not the current one)
\* and the call's catch handler runs.
EngineFails(cid) ==
  LET c == busCalls[cid]
      st == BusState(busListeners[Caller], busCalls)
      r == IF c.kind = "put" THEN PutCatch(st, cid, ConflictError)
           ELSE PostCatch(st, cid, PostError)
  IN  /\ c.pc = "writing"
      /\ c.kind = "put" => busStore[c.id] # c.rev
      /\ busCalls' = [r.calls EXCEPT ![cid].pc = "failed"]
      /\ busListeners' = [busListeners EXCEPT ![Caller] = r.listeners]
      /\ busOp' = BusStep("fail", Caller, 0, cid, 0)
      /\ UNCHANGED <<busShared, busStore, nBusWrites, busFeed, busChannel,
                     busLog, busPosted>>
      /\ UNCHANGED <<liveQueryVars, cetVars, ldVars>>

\* The response of a post's write arrives: the then handler sets
\* postResponse and replays the queue; what the replay throws goes to the
\* catch handler.
PostResponse(cid) ==
  LET c == busCalls[cid]
      st == BusState(busListeners[Caller],
                     [busCalls EXCEPT ![cid].postResponse = PostId(cid),
                                      ![cid].pc = "done"])
      replayed == ReplayQueue(st, cid, c.changeQueue)
      r == IF replayed.thrown THEN PostCatch(replayed, cid, "InternalError")
           ELSE replayed
  IN  /\ c.kind = "post"
      /\ c.pc = "written"
      /\ busCalls' = r.calls
      /\ busListeners' = [busListeners EXCEPT ![Caller] = r.listeners]
      /\ busOp' = BusStep("response", Caller, c.own, cid, 0)
      /\ UNCHANGED <<busShared, busStore, nBusWrites, busFeed, busChannel,
                     busLog, busPosted>>
      /\ UNCHANGED <<liveQueryVars, cetVars, ldVars>>

\* A write made in the other context, by whatever means.
ForeignWrite(ctx, id) ==
  /\ ctx # Caller
  /\ BusCommit(ctx, id, busStore[id] + 1)
  /\ busOp' = BusStep("write", ctx, nBusWrites + 1, 0, 0)
  /\ UNCHANGED <<busShared, busChannel, busListeners, busCalls, busLog,
                 busPosted>>
  /\ UNCHANGED <<liveQueryVars, cetVars, ldVars>>

\* Dispatch at instance ctx; only the first instance has put and post calls.
BusDispatch(ctx, change) ==
  LET r == DispatchChangeEvent(BusState(busListeners[ctx], busCalls),
                               busListeners[ctx], change)
  IN  /\ busListeners' = [busListeners EXCEPT ![ctx] = r.listeners]
      /\ busCalls' = r.calls
      /\ busLog' = [busLog EXCEPT ![ctx] = @ \o r.log]

FeedPostsNothing(ctx, change) == <<>>

\* this.channel.postMessage(change) in dbChangeEventListener: the
\* postMessage calls the handler makes.
FeedPosts(ctx, change) == <<<<ctx, change.seq>>>>

\* dbChangeEventListener: the feed of instance ctx reports a change; the
\* instance posts it to the channel, which hands it to every other instance
\* of that name, and dispatches it.
DbChangeEventListener(ctx) ==
  /\ busFeed[ctx] # <<>>
  /\ LET change == Head(busFeed[ctx])
         posts == FeedPosts(ctx, change)
     IN  /\ busFeed' = [busFeed EXCEPT ![ctx] = Tail(@)]
         /\ busChannel' = [c \in Contexts |->
                             IF c = ctx THEN busChannel[c]
                             ELSE busChannel[c] \o [i \in 1..Len(posts) |-> change]]
         /\ busPosted' = busPosted \o posts
         /\ BusDispatch(ctx, change)
         /\ busOp' = BusStep("feed", ctx, change.seq, 0, Len(posts))
  /\ UNCHANGED <<busShared, busStore, nBusWrites>>
  /\ UNCHANGED <<liveQueryVars, cetVars, ldVars>>

\* channelEventListener: the channel of instance ctx delivers a message; the
\* instance dispatches its data.
ChannelEventListener(ctx) ==
  /\ busChannel[ctx] # <<>>
  /\ LET change == Head(busChannel[ctx])
     IN  /\ busChannel' = [busChannel EXCEPT ![ctx] = Tail(@)]
         /\ BusDispatch(ctx, change)
         /\ busOp' = BusStep("channel", ctx, change.seq, 0, 0)
  /\ UNCHANGED <<busShared, busStore, nBusWrites, busFeed, busPosted>>
  /\ UNCHANGED <<liveQueryVars, cetVars, ldVars>>

\* ------------------------------------------------------------------------
\* LiveDoc (live-doc.ts).
\* ------------------------------------------------------------------------
MaxLdWrites == 3

\* The ids of changes: the followed document's and another one's.
DocId == "followed"
LdIds == {DocId, "other"}

\* A document value: a revision held by an object; ref tells objects apart.
\* Every get response and every reported change carries an object of its
\* own. Absent is undefined.
Absent == [rev |-> 0, ref |-> 0]
DocObject(rev, ref) == [rev |-> rev, ref |-> ref]

\* this.doc === doc: both undefined, or the same object.
SameDoc(a, b) == a = b

\* The LiveDoc while a handler runs.
LdState(doc, isClosed) ==
  [doc |-> doc, closed |-> isClosed, events |-> <<>>, thrown |-> FALSE]

\* setDoc(doc).
SetDoc(st, doc) ==
  IF st.closed THEN [st EXCEPT !.thrown = TRUE]
  ELSE IF SameDoc(st.doc, doc) THEN st
       ELSE [st EXCEPT !.events = Append(@, doc), !.doc = doc]

NoGet == [pc |-> "pending", value |-> Absent]
LdSnapshot == [doc |-> ldDoc, closed |-> ldClosed]
LdStep(op, delivered, value, thrown) ==
  [op |-> op, delivered |-> delivered, value |-> value, thrown |-> thrown]

\* A put of the followed document through the HeartDB (heartDb.put, or the
\* put that ends heartDb.update). pc: "idle" no call yet, "writing" the
\* engine has the write, "written" it committed revision own, "failed" it
\* refused it. base: the revision the written document names. listening:
\* the call's change listener is on the HeartDB. settled: the promise.
\* history: seen is LiveDoc.doc and followed whether the LiveDoc's listener
\* was on the HeartDB when the promise resolved.
NoPut ==
  [pc |-> "idle", base |-> 0, deleted |-> FALSE, own |-> 0,
   listening |-> FALSE, settled |-> "no", seen |-> Absent, followed |-> FALSE]

\* A LiveDoc just constructed on a document that does not exist yet: the
\* listener is on the HeartDB, the get is on its way.
LdNew ==
  /\ ldStore = [rev |-> 0, deleted |-> FALSE]
  /\ ldFeed = <<>>
  /\ ldGet = NoGet
  /\ ldDoc = Absent
  /\ ldClosed = FALSE
  /\ ldConnected = TRUE
  /\ ldDbClosed = FALSE
  /\ ldPut = NoPut
  /\ nLdWrites = 0
  /\ nLdRefs = 0
  /\ ldOp = LdStep("init", FALSE, Absent, FALSE)
  /\ ldEvents = <<>>
  /\ ldPre = [doc |-> Absent, closed |-> FALSE]

\* The engine commits a write of document id: the feed will report it with
\* an object of its own.
LdCommit(id, deleted) ==
  /\ nLdWrites < MaxLdWrites
  /\ nLdWrites' = nLdWrites + 1
  /\ nLdRefs' = nLdRefs + 1
  /\ ldStore' = IF id = DocId
                THEN [rev |-> ldStore.rev + 1, deleted |-> deleted]
                ELSE ldStore
  /\ ldFeed' = Append(ldFeed,
                 [id |-> id, deleted |-> deleted,
                  doc |-> DocObject(IF id = DocId THEN ldStore.rev + 1 ELSE 1,
                                    nLdRefs + 1)])
  /\ ldEvents' = <<>>
  /\ ldPre' = LdSnapshot
  /\ UNCHANGED <<ldGet, ldDoc, ldClosed, ldConnected, ldDbClosed>>
  /\ UNCHANGED <<liveQueryVars, cetVars, busVars>>

\* A write made by other means than the put followed here: a put of the
\* followed document, its deletion, or a put of another document.
LdWrite(id, deleted) ==
  /\ deleted => id = DocId /\ ldStore.rev > 0 /\ ~ldStore.deleted
  /\ LdCommit(id, deleted)
  /\ ldOp' = LdStep("write", FALSE, Absent, FALSE)
  /\ UNCHANGED ldPut

\* heartDb.put(doc) of the followed document, doc naming the revision the
\* caller last read: the change listener is added, then the write goes to
\* the engine.
LdPutCall(deleted) ==
  /\ ~ldDbClosed
  /\ ~ldPut.listening
  /\ ldPut.pc # "writing"
  /\ nLdWrites < MaxLdWrites
  /\ deleted => ldStore.rev > 0 /\ ~ldStore.deleted
  /\ ldPut' = [NoPut EXCEPT !.pc = "writing", !.base = ldStore.rev,
                            !.deleted = deleted, !.listening = TRUE]
  /\ ldOp' = LdStep("put", FALSE, Absent, FALSE)
  /\ ldEvents' = <<>>
  /\ ldPre' = LdSnapshot
  /\ UNCHANGED <<ldStore, ldFeed, ldGet, ldDoc, ldClosed, ldConnected,
                 ldDbClosed, nLdWrites, nLdRefs>>
  /\ UNCHANGED <<liveQueryVars, cetVars, busVars>>

\* The engine commits the put: the document still has the revision named.
LdPutCommits ==
  /\ ldPut.pc = "writing"
  /\ ldStore.rev = ldPut.base
  /\ LdCommit(DocId, ldPut.deleted)
  /\ ldPut' = [ldPut EXCEPT !.pc = "written", !.own = ldStore.rev + 1]
  /\ ldOp' = LdStep("putCommits", FALSE, Absent, FALSE)

\* The engine refuses the put, the document having another revision by
\* now: put's catch handler disconnects the listener and rejects.
LdPutFails ==
  /\ ldPut.pc = "writing"
  /\ ldStore.rev # ldPut.base
  /\ ldPut' = [ldPut EXCEPT !.pc = "failed", !.listening = FALSE,
                            !.settled = IF @ = "no" THEN "rejected" ELSE @]
  /\ ldOp' = LdStep("putFails", FALSE, Absent, FALSE)
  /\ ldEvents' = <<>>
  /\ ldPre' = LdSnapshot
  /\ UNCHANGED <<ldStore, ldFeed, ldGet, ldDoc, ldClosed, ldConnected,
                 ldDbClosed, nLdWrites, nLdRefs>>
  /\ UNCHANGED <<liveQueryVars, cetVars, busVars>>

\* The HeartDB dispatches the next change; the LiveDoc's listener, while
\* on the HeartDB, hands a change of its id to setDoc; the listener of a
\* pending put resolves the put with a change of its document's id.
LdChange ==
  /\ ~ldDbClosed
  /\ ldFeed # <<>>
  /\ LET change == Head(ldFeed)
         mine == ldConnected /\ change.id = DocId
         value == IF change.deleted THEN Absent ELSE change.doc
         r == IF mine THEN SetDoc(LdState(ldDoc, ldClosed), value)
              ELSE LdState(ldDoc, ldClosed)
     IN  /\ ldFeed' = Tail(ldFeed)
         /\ ldDoc' = r.doc
         /\ ldEvents' = r.events
         /\ ldOp' = LdStep("change", mine, value, r.thrown)
         /\ ldPut' = IF ldPut.listening /\ change.id = DocId
                     THEN [ldPut EXCEPT !.listening = FALSE,
                                        !.settled = "resolved",
                                        !.seen = r.doc,
                                        !.followed = ldConnected]
                     ELSE ldPut
  /\ ldPre' = LdSnapshot
  /\ UNCHANGED <<ldStore, ldGet, ldClosed, ldConnected, ldDbClosed, nLdWrites,
                 nLdRefs>>
  /\ UNCHANGED <<liveQueryVars, cetVars, busVars>>

\* The engine reads the document for the initial get: a missing or deleted
\* document is a 404, which heartDb.get turns into undefined.
LdGetReads ==
  /\ ldGet.pc = "pending"
  /\ LET found == ldStore.rev > 0 /\ ~ldStore.deleted
     IN  /\ ldGet' = [pc |-> "read",
                      value |-> IF found THEN DocObject(ldStore.rev, nLdRefs + 1)
                                ELSE Absent]
         /\ nLdRefs' = IF found THEN nLdRefs + 1 ELSE nLdRefs
  /\ ldOp' = LdStep("read", FALSE, Absent, FALSE)
  /\ ldEvents' = <<>>
  /\ ldPre' = LdSnapshot
  /\ UNCHANGED <<ldStore, ldFeed, ldDoc, ldClosed, ldConnected, ldDbClosed,
                 ldPut, nLdWrites>>
  /\ UNCHANGED <<liveQueryVars, cetVars, busVars>>

\* The get resolves: the then handler hands the document to setDoc; what
\* setDoc throws goes to the catch handler, which dispatches an error event.
LdGetResolves ==
  /\ ldGet.pc = "read"
  /\ LET r == SetDoc(LdState(ldDoc, ldClosed), ldGet.value)
     IN  /\ ldDoc' = r.doc
         /\ ldEvents' = r.events
         /\ ldOp' = LdStep("get", TRUE, ldGet.value, r.thrown)
  /\ ldGet' = [ldGet EXCEPT !.pc = "done"]
  /\ ldPre' = LdSnapshot
  /\ UNCHANGED <<ldStore, ldFeed, ldClosed, ldConnected, ldDbClosed, ldPut,
                 nLdWrites, nLdRefs>>
  /\ UNCHANGED <<liveQueryVars, cetVars, busVars>>

\* The get rejects with an error other than 404: the catch handler
\* dispatches an error event; doc stays.
LdGetFails ==
  /\ ldGet.pc = "pending"
  /\ ldGet' = [ldGet EXCEPT !.pc = "failed"]
  /\ ldOp' = LdStep("getFails", FALSE, Absent, FALSE)
  /\ ldEvents' = <<>>
  /\ ldPre' = LdSnapshot
  /\ UNCHANGED <<ldStore, ldFeed, ldDoc, ldClosed, ldConnected, ldDbClosed,
                 ldPut, nLdWrites, nLdRefs>>
  /\ UNCHANGED <<liveQueryVars, cetVars, busVars>>

\* HeartDB.close(): the feed is cancelled and, in CloseableEventTarget's
\* close, every listener is removed, the LiveDoc's and a pending put's among
\* them; the LiveDoc is not told and keeps its disconnect function.
LdDbClose ==
  /\ ldDbClosed' = TRUE
  /\ ldConnected' = (IF ldDbClosed THEN ldConnected ELSE FALSE)
  /\ ldPut' = IF ldDbClosed THEN ldPut ELSE [ldPut EXCEPT !.listening = FALSE]
  /\ ldOp' = LdStep("dbClose", FALSE, Absent, FALSE)
  /\ ldEvents' = <<>>
  /\ ldPre' = LdSnapshot
  /\ UNCHANGED <<ldStore, ldFeed, ldGet, ldDoc, ldClosed, nLdWrites, nLdRefs>>
  /\ UNCHANGED <<liveQueryVars, cetVars, busVars>>

\* LiveDoc.close(): this.disconnect() is the HeartDB's removeEventListener,
\* which throws on a closed HeartDB (ClosedError) before closed is set.
LdClose ==
  LET thrown == ~ldClosed /\ ldDbClosed
  IN  /\ ldClosed' = (IF thrown THEN ldClosed ELSE TRUE)
      /\ ldConnected' = (IF ldClosed \/ thrown THEN ldConnected ELSE FALSE)
      /\ ldOp' = LdStep("close", FALSE, Absent, thrown)
      /\ ldEvents' = <<>>
      /\ ldPre' = LdSnapshot
      /\ UNCHANGED <<ldStore, ldFeed, ldGet, ldDoc, ldDbClosed, ldPut, nLdWrites,
                     nLdRefs>>
      /\ UNCHANGED <<liveQueryVars, cetVars, busVars>>

OthersIdle == CetIdle /\ BusIdle /\ LdNew

NoDoc == [_id |-> "", _rev |-> 0, _deleted |-> FALSE, f |-> 0]

\* A suspended continuation. kind "page": setQuery awaiting find (skip,
\* requestCount are its locals). kind "point": a change listener awaiting its
\* id-specific find (id, changedDoc are its locals). pc "finding": the find
\* has not read the store yet; "found": result holds the response.
\* matched (history): whether the changed document was among the query's
\* results when the point find read the store.
Task(kind, tid, q, skip, requestCount, id, changedDoc) ==
  [kind |-> kind, tid |-> tid, query |-> q, skip |-> skip,
   requestCount |-> requestCount, id |-> id, changedDoc |-> changedDoc,
   pc |-> "finding", result |-> <<>>, matched |-> FALSE]

\* history record of an operation: its name, the query it ran for, the id it
\* concerned, the number of documents in the find response it handled, a
\* flag (setQuery: the call was a no-op; a resumption: it found itself
\* preempted; a change: it reports a deletion) and the continuation that ran
\* (NoTask: none).
NoTask == Task("none", 0, NoQuery, 0, 0, "", NoDoc)
Op(op, q, id, n, flag, t) ==
  [op |-> op, query |-> q, id |-> id, n |-> n, flag |-> flag, task |-> t]

\* history: the fields of the LiveQuery and the HeartDB's listeners, as an
\* operation finds them.
Snapshot ==
  [query |-> query, docs |-> docs, disconnect |-> disconnect,
   closed |-> closed, listeners |-> listeners, tasks |-> tasks]

\* The find request of a paging step: { ...query, skip }.
PageRequest(q, skip) == [QueryDef(q) EXCEPT !.skip = skip]

\* The find request of a change listener:
\* { ...query, selector: { ...query.selector, _id: id } }.
PointRequest(q, id) == [QueryDef(q) EXCEPT !.selId = [op |-> "eq", id |-> id]]

TaskRequest(t) ==
  IF t.kind = "page" THEN PageRequest(t.query, t.skip)
  ELSE PointRequest(t.query, t.id)

\* All documents the query yields when paged to the end: those the selector
\* admits, in id order, after the query's own skip.
RECURSIVE SeqToSet(_)
SeqToSet(s) == IF s = <<>> THEN {} ELSE {Head(s)} \cup SeqToSet(Tail(s))
QueryResultIds(st, q) ==
  LET all == SelectSeq(IdSeq, LAMBDA id : StoredMatches(st, QueryDef(q), id))
  IN  SeqToSet(SubSeq(all, QueryDef(q).skip + 1, Len(all)))

\* removeEventListener("change", listener) on the HeartDB.
RemoveListener(ls, lid) == SelectSeq(ls, LAMBDA l : l.lid # lid)

\* history: the source query of each held document after a merge by code
\* running for query q that received the documents with ids `got`.
SrcAfter(src, new, got, q) ==
  [k \in DOMAIN new |-> IF k \in got \/ k \notin DOMAIN src THEN q ELSE src[k]]

\* The stores a LiveQuery may be created on: the first document exists, each
\* other one exists or was never written.
InitStores ==
  {st \in [Ids -> [rev : {0, 1}, deleted : {FALSE}, f : {1}]] :
     st[AllIds[1]].rev = 1}

Init ==
  /\ store \in InitStores
  /\ feed = <<>>
  /\ nWrites = 0
  /\ query = NoQuery
  /\ docs = EmptyDocs
  /\ disconnect = NoListener
  /\ closed = FALSE
  /\ listeners = <<>>
  /\ tasks = {}
  /\ nSet = 0
  /\ errors = {}
  /\ rejected = {}
  /\ lastOp = Op("init", NoQuery, "", 0, FALSE, NoTask)
  /\ lastEvents = <<>>
  /\ docsSrc = EmptyDocs
  /\ pre = Snapshot
  /\ OthersIdle

\* ------------------------------------------------------------------------
\* LiveQuery.setQuery (live-query.ts, setQuery).
\* ------------------------------------------------------------------------
\* Mutant: the reference comparison never succeeds.
SameQueryNever(q, cur) == FALSE

\* query === this.query
SameQuery(q, cur) == q = cur

\* Mutant: a continuation always takes itself for preempted.
PreemptedAlways(isClosed, cur, q) == TRUE

\* Mutant: a continuation checks only for close, not for a replaced query.
PreemptedClosedOnly(isClosed, cur, q) == isClosed

\* this.closed || this.query !== query, as evaluated by a continuation that
\* captured q.
Preempted(isClosed, cur, q) == isClosed \/ cur # q

\* Mutant: the paging loop ends after any page.
PagingDoneAlways(q, n) == TRUE

\* !docs.length || (query.limit && docs.length < query.limit)
PagingDone(q, n) ==
  n = 0 \/ (QueryDef(q).limit # 0 /\ n < QueryDef(q).limit)

\* Mutant: the disconnect handle releases nothing.
DisconnectedNever(ls, handle) == ls

\* this.disconnect?.call(null)
Disconnected(ls, handle) ==
  IF handle = NoListener THEN ls ELSE RemoveListener(ls, handle)

\* The synchronous part of setQuery(q), up to the first await; max bounds
\* the number of calls that change the query.
SetQueryUpTo(q, max) ==
  /\ nSet < max
  /\ pre' = Snapshot
  /\ lastOp' = Op("setQuery", q, "", 0, SameQuery(q, query), NoTask)
  /\ IF SameQuery(q, query)
     THEN /\ lastEvents' = <<>>
          /\ UNCHANGED <<store, feed, nWrites, query, docs, disconnect, closed,
                         listeners, tasks, nSet, errors, docsSrc>>
     ELSE /\ nSet' = nSet + 1
          /\ listeners' = Disconnected(listeners, disconnect)
          /\ disconnect' = NoListener
          /\ query' = q
          /\ IF q = NoQuery
             THEN LET r == ProcessDocs(docs, <<>>, TRUE)
                  IN  /\ docs' = r.docs
                      /\ lastEvents' = r.events
                      /\ docsSrc' = SrcAfter(docsSrc, r.docs, {}, q)
                      /\ tasks' = tasks
             ELSE /\ tasks' = tasks \cup
                       {Task("page", nSet + 1, q, QueryDef(q).skip, 1, "", NoDoc)}
                  /\ lastEvents' = <<>>
                  /\ UNCHANGED <<docs, docsSrc>>
          /\ UNCHANGED <<store, feed, nWrites, closed, errors>>
  /\ UNCHANGED <<rejected, otherVars>>

SetQuery(q) == SetQueryUpTo(q, MaxSetQuery)

\* setQuery where one more call may pass a query object again.
SetQueryAgain(q) == SetQueryUpTo(q, MaxSetQuery + 1)

\* The storage engine answers a pending find: it reads the store now.
FindReturn(t) ==
  /\ t.pc = "finding"
  /\ pre' = Snapshot
  /\ tasks' = (tasks \ {t}) \cup
       {[t EXCEPT !.pc = "found",
                  !.result = Find(store, TaskRequest(t)),
                  !.matched = t.id \in QueryResultIds(store, t.query)]}
  /\ lastOp' = Op("find", t.query, t.id, 0, FALSE, t)
  /\ lastEvents' = <<>>
  /\ UNCHANGED <<store, feed, nWrites, query, docs, disconnect, closed,
                 listeners, nSet, errors, docsSrc>>
  /\ UNCHANGED <<rejected, otherVars>>

\* setQuery resumes after await find: one turn of the paging loop and, when
\* the loop is done, the subscription of the change listener.
ResumeSetQuery(t) ==
  /\ t.kind = "page"
  /\ t.pc = "found"
  /\ pre' = Snapshot
  /\ lastOp' = Op("resumeSetQuery", t.query, "", Len(t.result),
                  Preempted(closed, query, t.query), t)
  /\ IF Preempted(closed, query, t.query)
     THEN /\ tasks' = tasks \ {t}
          /\ lastEvents' = <<>>
          /\ UNCHANGED <<docs, docsSrc, listeners, disconnect>>
     ELSE LET r == ProcessDocs(docs, t.result, t.requestCount = 1)
              n == Len(t.result)
          IN  /\ docs' = r.docs
              /\ lastEvents' = r.events
              /\ docsSrc' = SrcAfter(docsSrc, r.docs,
                                     {t.result[i]._id : i \in 1..n}, t.query)
              /\ IF PagingDone(t.query, n)
                 THEN /\ tasks' = tasks \ {t}
                      /\ listeners' = Append(listeners,
                                             [lid |-> t.tid, query |-> t.query])
                      /\ disconnect' = t.tid
                 ELSE /\ tasks' = (tasks \ {t}) \cup
                           {[t EXCEPT !.pc = "finding", !.skip = @ + n,
                                      !.requestCount = @ + 1, !.result = <<>>]}
                      /\ UNCHANGED <<listeners, disconnect>>
  /\ UNCHANGED <<store, feed, nWrites, query, closed, nSet, errors>>
  /\ UNCHANGED <<rejected, otherVars>>

\* ------------------------------------------------------------------------
\* The change listener (live-query.ts, createQueryListener).
\* ------------------------------------------------------------------------
ReplacedQueryError == "Unexpected change event from replaced query"
MultipleDocError == "Unexpected multiple doc response to id-specific query"
MismatchedIdError == "Unexpected mismatched id in response to id-specific query"

\* new ExitEvent({ id: changedDoc }): the object literal's key is the name id.
ExitDetail(id, changedDoc) == [k \in {"id"} |-> changedDoc]

\* new EnterEvent({ [id]: responseDoc }), new UpdateEvent({ [id]: responseDoc })
KeyedDetail(id, doc) == [k \in {id} |-> doc]

\* dispatch exit; delete this.docs[id]; dispatch afterchange.
ListenerExit(cur, id, changedDoc) ==
  LET new == MapDel(cur, id)
  IN  [docs |-> new,
       events |-> <<Event("exit", ExitDetail(id, changedDoc), cur),
                    Event("afterchange", new, new)>>,
       errors |-> {}]

\* Mutant: the listener makes the response document the only one held.
ListenerSetAlone(type, cur, id, responseDoc) ==
  LET new == MapPut(EmptyDocs, id, responseDoc)
  IN  [docs |-> new,
       events |-> <<Event(type, KeyedDetail(id, responseDoc), cur),
                    Event("afterchange", new, new)>>,
       errors |-> {}]

\* dispatch enter or update; this.docs[id] = responseDoc; dispatch afterchange.
ListenerSet(type, cur, id, responseDoc) ==
  LET new == MapPut(cur, id, responseDoc)
  IN  [docs |-> new,
       events |-> <<Event(type, KeyedDetail(id, responseDoc), cur),
                    Event("afterchange", new, new)>>,
       errors |-> {}]

\* The listener after its id-specific find returned `response`, the query
\* being still live.
PointResult(cur, id, changedDoc, response) ==
  IF Len(response) = 0
  THEN ListenerExit(cur, id, changedDoc)
  ELSE IF Len(response) > 1
  THEN [docs |-> cur, events |-> <<>>, errors |-> {MultipleDocError}]
  ELSE IF response[1]._id # id
  THEN [docs |-> cur, events |-> <<>>, errors |-> {MismatchedIdError}]
  ELSE IF id \notin DOMAIN cur
  THEN ListenerSet("enter", cur, id, response[1])
  ELSE IF response[1]._rev = cur[id]._rev
  THEN [docs |-> cur, events |-> <<>>, errors |-> {}]
  ELSE ListenerSet("update", cur, id, response[1])

\* The listener's synchronous part for one change event: acc carries
\* this.docs, the events dispatched, the continuations suspended and the
\* errors thrown by the listeners that ran before it.
ListenerSync(l, change, acc) ==
  IF Preempted(closed, query, l.query)
  THEN [acc EXCEPT !.errors = @ \cup {ReplacedQueryError}]
  ELSE IF change.id \in DOMAIN acc.docs /\ change.deleted
  THEN LET r == ListenerExit(acc.docs, change.id, change.doc)
       IN  [acc EXCEPT !.docs = r.docs, !.events = @ \o r.events]
  ELSE [acc EXCEPT !.tasks = @ \cup
          {Task("point", l.lid, l.query, 0, 0, change.id, change.doc)}]

\* dispatchEvent(new ChangeEvent(change)) on the HeartDB: every registered
\* listener runs, in registration order.
RECURSIVE DispatchChange(_, _, _)
DispatchChange(ls, change, acc) ==
  IF ls = <<>>
  THEN acc
  ELSE DispatchChange(Tail(ls), change, ListenerSync(Head(ls), change, acc))

\* The listener resumes after await find.
ResumePoint(t) ==
  /\ t.kind = "point"
  /\ t.pc = "found"
  /\ pre' = Snapshot
  /\ tasks' = tasks \ {t}
  /\ lastOp' = Op("resumePoint", t.query, t.id, Len(t.result),
                  Preempted(closed, query, t.query), t)
  /\ IF Preempted(closed, query, t.query)
     THEN /\ lastEvents' = <<>>
          /\ UNCHANGED <<docs, docsSrc, errors>>
     ELSE LET r == PointResult(docs, t.id, t.changedDoc, t.result)
          IN  /\ docs' = r.docs
              /\ lastEvents' = r.events
              /\ errors' = errors \cup r.errors
              /\ docsSrc' = SrcAfter(docsSrc, r.docs, {t.id}, t.query)
  /\ UNCHANGED <<store, feed, nWrites, query, disconnect, closed, listeners,
                 nSet>>
  /\ UNCHANGED <<rejected, otherVars>>

\* The storage engine fails a pending find: await throws in the continuation.
\* Neither setQuery nor the change listener has a handler around its await,
\* so the continuation ends there and its promise rejects. stale (history):
\* whether the continuation had been preempted by then.
FindFails(t) ==
  /\ t.pc = "finding"
  /\ pre' = Snapshot
  /\ tasks' = tasks \ {t}
  /\ rejected' = rejected \cup
       {[kind |-> t.kind, tid |-> t.tid, query |-> t.query,
         stale |-> Preempted(closed, query, t.query)]}
  /\ lastOp' = Op("findFails", t.query, t.id, 0,
                  Preempted(closed, query, t.query), t)
  /\ lastEvents' = <<>>
  /\ UNCHANGED <<store, feed, nWrites, query, docs, disconnect, closed,
                 listeners, nSet, errors, docsSrc>>
  /\ UNCHANGED otherVars

\* ------------------------------------------------------------------------
\* The store's writes and HeartDB's change feed (heartdb.ts, constructor).
\* ------------------------------------------------------------------------
Commit(id, rec) ==
  LET st == [store EXCEPT ![id] = rec]
  IN  /\ nWrites < MaxWrites
      /\ nWrites' = nWrites + 1
      /\ store' = st
      /\ feed' = Append(feed, [id |-> id, deleted |-> rec.deleted,
                               doc |-> StoredDoc(st, id)])
      /\ lastEvents' = <<>>
      /\ pre' = Snapshot
      /\ UNCHANGED <<query, docs, disconnect, closed, listeners, tasks, nSet,
                     errors, docsSrc>>
      /\ UNCHANGED <<rejected, otherVars>>

\* A write that creates or updates a document.
PutDoc(id, f) ==
  /\ Commit(id, [rev |-> store[id].rev + 1, deleted |-> FALSE, f |-> f])
  /\ lastOp' = Op("put", NoQuery, id, 0, FALSE, NoTask)

\* A write that deletes an existing document.
DeleteDoc(id) ==
  /\ store[id].rev > 0
  /\ ~store[id].deleted
  /\ Commit(id, [rev |-> store[id].rev + 1, deleted |-> TRUE, f |-> store[id].f])
  /\ lastOp' = Op("delete", NoQuery, id, 0, FALSE, NoTask)

\* dbChangeEventListener: the feed reports the next change; HeartDB
\* dispatches it to its change listeners.
DeliverChange ==
  /\ feed # <<>>
  /\ pre' = Snapshot
  /\ LET change == Head(feed)
         r == DispatchChange(listeners, change,
                [docs |-> docs, events |-> <<>>, tasks |-> tasks,
                 errors |-> errors])
     IN  /\ feed' = Tail(feed)
         /\ docs' = r.docs
         /\ lastEvents' = r.events
         /\ tasks' = r.tasks
         /\ errors' = r.errors
         /\ docsSrc' = SrcAfter(docsSrc, r.docs, {}, query)
         /\ lastOp' = Op("change", query, change.id, 0, change.deleted, NoTask)
  /\ UNCHANGED <<store, nWrites, query, disconnect, closed, listeners, nSet>>
  /\ UNCHANGED <<rejected, otherVars>>

\* ------------------------------------------------------------------------
\* LiveQuery.close (live-query.ts, close; closeable-event-target.ts, close).
\* ------------------------------------------------------------------------
\* The HeartDB's "close" listeners that belong to the LiveQuery: the one its
\* constructor adds. Its disconnect function is called only by that listener
\* itself, when the HeartDB closes; no operation of the LiveQuery removes it.
HeartDbCloseListeners == {"LiveQuery.close"}

Close ==
  /\ pre' = Snapshot
  /\ lastOp' = Op("close", query, "", 0, closed, NoTask)
  /\ IF closed
     THEN /\ lastEvents' = <<>>
          /\ UNCHANGED <<listeners, disconnect, closed>>
     ELSE /\ listeners' = Disconnected(listeners, disconnect)
          /\ disconnect' = NoListener
          /\ lastEvents' = <<Event("close", EmptyDocs, docs)>>
          /\ closed' = TRUE
  /\ UNCHANGED <<store, feed, nWrites, query, docs, tasks, nSet, errors,
                 docsSrc>>
  /\ UNCHANGED <<rejected, otherVars>>

Next ==
  \/ \E q \in QueryRefs \cup {NoQuery} : SetQuery(q)
  \/ \E t \in tasks : FindReturn(t)
  \/ \E t \in tasks : ResumeSetQuery(t)
  \/ \E t \in tasks : ResumePoint(t)
  \/ \E id \in Ids, f \in FieldVals : PutDoc(id, f)
  \/ \E id \in Ids : DeleteDoc(id)
  \/ DeliverChange
  \/ Close

Spec == Init /\ [][Next]_vars

\* ------------------------------------------------------------------------
\* processDocs on its own: a caller hands the public method any list of
\* documents, over any record of held documents. The initial states draw the
\* held record and the arguments; the one action is the call.
\* ------------------------------------------------------------------------
MaxIncoming == 2

PDRevs == {1, 2}
PDDoc(id, rev, deleted) == [_id |-> id, _rev |-> rev, _deleted |-> deleted, f |-> 1]
PDIncomingDocs == {PDDoc(id, rev, deleted) : id \in Ids, rev \in PDRevs, deleted \in BOOLEAN}
PDIncoming == UNION {[1..n -> PDIncomingDocs] : n \in 0..MaxIncoming}
PDHeld ==
  UNION {[held -> PDRevs] : held \in SUBSET Ids}

InitPD ==
  /\ \E revs \in PDHeld :
       docs = [id \in DOMAIN revs |-> PDDoc(id, revs[id], FALSE)]
  /\ \E incoming \in PDIncoming, replace \in BOOLEAN :
       lastOp = [op |-> "call", incoming |-> incoming, replace |-> replace]
  /\ store = [id \in Ids |-> [rev |-> 1, deleted |-> FALSE, f |-> 1]]
  /\ feed = <<>>
  /\ nWrites = 0
  /\ query = NoQuery
  /\ disconnect = NoListener
  /\ closed = FALSE
  /\ listeners = <<>>
  /\ tasks = {}
  /\ nSet = 0
  /\ errors = {}
  /\ rejected = {}
  /\ lastEvents = <<>>
  /\ docsSrc = EmptyDocs
  /\ pre = Snapshot
  /\ OthersIdle

ProcessDocsCall ==
  /\ lastOp.op = "call"
  /\ LET r == ProcessDocs(docs, lastOp.incoming, lastOp.replace)
     IN  /\ docs' = r.docs
         /\ lastEvents' = r.events
  /\ pre' = Snapshot
  /\ lastOp' = [lastOp EXCEPT !.op = "processDocs"]
  /\ UNCHANGED <<store, feed, nWrites, query, disconnect, closed,
                 listeners, tasks, nSet, errors, docsSrc>>
  /\ UNCHANGED <<rejected, otherVars>>

NextPD == ProcessDocsCall

SpecPD == InitPD /\ [][NextPD]_vars


\* ------------------------------------------------------------------------
\* Re-setting a query: the LiveQuery with one more setQuery call than in
\* Spec, so that a query object can be set, replaced and set again; the
\* writes are puts of matching documents.
\* ------------------------------------------------------------------------
RequeryRefs == {"A", "B"}

NextRequery ==
  \/ \E q \in RequeryRefs : SetQueryAgain(q)
  \/ \E t \in tasks : FindReturn(t)
  \/ \E t \in tasks : ResumeSetQuery(t)
  \/ \E t \in tasks : ResumePoint(t)
  \/ \E id \in Ids : PutDoc(id, 1)
  \/ DeliverChange
  \/ Close

SpecRequery == Init /\ [][NextRequery]_vars

\* ------------------------------------------------------------------------
\* Paging on its own: setQuery over a store that no one writes to.
\* ------------------------------------------------------------------------
PagingStores ==
  [Ids -> {[rev |-> r, deleted |-> FALSE, f |-> IF r = 0 THEN 1 ELSE f] :
             r \in {0, 1}, f \in FieldVals}]

InitPaging ==
  /\ store \in PagingStores
  /\ feed = <<>>
  /\ nWrites = 0
  /\ query = NoQuery
  /\ docs = EmptyDocs
  /\ disconnect = NoListener
  /\ closed = FALSE
  /\ listeners = <<>>
  /\ tasks = {}
  /\ nSet = 0
  /\ errors = {}
  /\ rejected = {}
  /\ lastOp = Op("init", NoQuery, "", 0, FALSE, NoTask)
  /\ lastEvents = <<>>
  /\ docsSrc = EmptyDocs
  /\ pre = Snapshot
  /\ OthersIdle

NextPaging ==
  \/ \E q \in PagingQueryRefs \cup {NoQuery} : SetQuery(q)
  \/ \E t \in tasks : FindReturn(t)
  \/ \E t \in tasks : ResumeSetQuery(t)

SpecPaging == InitPaging /\ [][NextPaging]_vars

\* Query transitions in which every find call returns and every continuation
\* whose await has its value is run by the event loop.
SpecPagingFair ==
  /\ SpecPaging
  /\ WF_vars(\E t \in tasks : FindReturn(t))
  /\ WF_vars(\E t \in tasks : ResumeSetQuery(t))

\* ------------------------------------------------------------------------
\* Query transitions whose find calls may fail.
\* ------------------------------------------------------------------------
NextFindError ==
  \/ \E q \in PagingQueryRefs \cup {NoQuery} : SetQuery(q)
  \/ \E t \in tasks : FindReturn(t)
  \/ \E t \in tasks : FindFails(t)
  \/ \E t \in tasks : ResumeSetQuery(t)

SpecFindError == InitPaging /\ [][NextFindError]_vars

\* ------------------------------------------------------------------------
\* The event target on its own: clients add listeners, call the disconnect
\* functions they were given, dispatch and close, in any order.
\* ------------------------------------------------------------------------
\* No LiveQuery runs: its variables keep the values of a fresh one.
LiveQueryIdle ==
  /\ store = [id \in Ids |-> [rev |-> 0, deleted |-> FALSE, f |-> 1]]
  /\ feed = <<>>
  /\ nWrites = 0
  /\ query = NoQuery
  /\ docs = EmptyDocs
  /\ disconnect = NoListener
  /\ closed = FALSE
  /\ listeners = <<>>
  /\ tasks = {}
  /\ nSet = 0
  /\ errors = {}
  /\ rejected = {}
  /\ lastOp = Op("init", NoQuery, "", 0, FALSE, NoTask)
  /\ lastEvents = <<>>
  /\ docsSrc = EmptyDocs
  /\ pre = Snapshot

InitCet == LiveQueryIdle /\ CetIdle /\ BusIdle /\ LdNew

NextCet ==
  \/ \E type \in EventTypes, cb \in Callbacks : CetAdd(type, cb)
  \/ \E h \in cetHandles : CetDisconnect(h)
  \/ CetDispatch
  \/ CetClose

SpecCet == InitCet /\ [][NextCet]_vars

\* ------------------------------------------------------------------------
\* The change bus: two HeartDB instances on one database, writes made in
\* either context, put and post calls on the first instance.
\* ------------------------------------------------------------------------
InitBus ==
  /\ LiveQueryIdle
  /\ CetIdle
  /\ LdNew
  /\ busShared \in BOOLEAN
  /\ busStore = [id \in BusDocIds |-> 0]
  /\ nBusWrites = 0
  /\ busFeed = [c \in Contexts |-> <<>>]
  /\ busChannel = [c \in Contexts |-> <<>>]
  /\ busListeners = [c \in Contexts |-> <<ClientListener>>]
  /\ busCalls = <<>>
  /\ busLog = [c \in Contexts |-> <<>>]
  /\ busPosted = <<>>
  /\ busOp = BusStep("init", 0, 0, 0, 0)

NextBus ==
  \/ \E id \in BusDocIds, rev \in 0..1 : PutCall(id, rev)
  \/ PostCall
  \/ \E cid \in 1..Len(busCalls) : EngineCommits(cid)
  \/ \E cid \in 1..Len(busCalls) : EngineFails(cid)
  \/ \E cid \in 1..Len(busCalls) : PostResponse(cid)
  \/ \E ctx \in Contexts, id \in BusDocIds : ForeignWrite(ctx, id)
  \/ \E ctx \in Contexts : DbChangeEventListener(ctx)
  \/ \E ctx \in Contexts : ChannelEventListener(ctx)

SpecBus == InitBus /\ [][NextBus]_vars

\* ------------------------------------------------------------------------
\* A LiveDoc: writes to the database, the changes dispatched one by one, the
\* initial get, close.
\* ------------------------------------------------------------------------
InitLiveDoc == LiveQueryIdle /\ CetIdle /\ BusIdle /\ LdNew

NextLiveDoc ==
  \/ \E id \in LdIds, deleted \in BOOLEAN : LdWrite(id, deleted)
  \/ LdChange
  \/ LdGetReads
  \/ LdGetResolves
  \/ LdGetFails
  \/ \E deleted \in BOOLEAN : LdPutCall(deleted)
  \/ LdPutCommits
  \/ LdPutFails
  \/ LdDbClose
  \/ LdClose

SpecLiveDoc == InitLiveDoc /\ [][NextLiveDoc]_vars

\* ------------------------------------------------------------------------
\* Properties. lastOp, lastEvents and pre describe the operation that led to
\* the state: what ran, what it dispatched and what it found.
\* ------------------------------------------------------------------------
IsDeltaType(type) == type \in {"exit", "enter", "update"}

\* The last operation was a continuation that found its query still live.
ResumedLive(op) ==
  /\ lastOp.op = op
  /\ ~pre.closed
  /\ lastOp.query = pre.query

\* C1: a resolution that resumes from find while another query is current
\* dispatches no event, leaves docs alone and subscribes no listener; and when
\* the resolution of the latest setQuery call completes, every document in
\* docs was produced by a find issued for its query.
C1_SupersededDiscarded ==
  lastOp.op = "resumeSetQuery" =>
    /\ (lastOp.query # pre.query =>
          /\ lastEvents = <<>>
          /\ docs = pre.docs
          /\ listeners = pre.listeners
          /\ disconnect = pre.disconnect)
    /\ ((/\ ResumedLive("resumeSetQuery")
         /\ PagingDone(lastOp.query, lastOp.n)
         /\ lastOp.task.tid = nSet) =>
          \A id \in DOMAIN docs : docsSrc[id] = lastOp.query)

\* C1 witness: the find of a superseded resolution returned documents after
\* the resolution of the newer query had completed and subscribed; docs holds
\* the newer query's documents.
C1_Witness ==
  /\ lastOp.op = "resumeSetQuery"
  /\ lastOp.flag
  /\ lastOp.n > 0
  /\ ~closed
  /\ query \in QueryRefs
  /\ lastOp.query # query
  /\ disconnect = nSet
  /\ docs # EmptyDocs

\* C2: setQuery with the reference already held starts no find, dispatches no
\* event and leaves query, docs and the listener registration unchanged.
C2_SameQueryNoOp ==
  (lastOp.op = "setQuery" /\ lastOp.query = pre.query) =>
    /\ lastEvents = <<>>
    /\ query = pre.query
    /\ docs = pre.docs
    /\ tasks = pre.tasks
    /\ listeners = pre.listeners
    /\ disconnect = pre.disconnect

\* C2 witness: setQuery was just called again with the live query's reference.
C2_Witness ==
  /\ lastOp.op = "setQuery"
  /\ lastOp.flag
  /\ lastOp.query \in QueryRefs
  /\ disconnect # NoListener
  /\ docs # EmptyDocs

\* The current query is live and nothing is in flight: its resolution has
\* subscribed, the feed has reported every committed write and every
\* continuation has run.
Settled ==
  /\ ~closed
  /\ query \in QueryRefs
  /\ disconnect # NoListener
  /\ tasks = {}
  /\ feed = <<>>

\* docs holds exactly the documents the query yields from the store, each at
\* its stored revision.
DocsExact ==
  /\ DOMAIN docs = QueryResultIds(store, query)
  /\ \A id \in DOMAIN docs : docs[id] = StoredDoc(store, id)

\* C3 (as claimed): once setQuery has resolved and every dispatched change
\* has been handled, docs holds exactly the documents that match the query,
\* each at its current revision.
C3_NoMissedTransition == Settled => DocsExact

\* C4 (as claimed): every document in docs matches the currently set query.
C4_DocsMatchCurrentQuery ==
  \A id \in DOMAIN docs :
    /\ query \in QueryRefs
    /\ ~docs[id]._deleted
    /\ SelectorMatches(QueryDef(query), id, docs[id].f)

\* The resolution of the latest setQuery call has not merged its first page.
FirstPagePending ==
  \E t \in tasks :
    t.kind = "page" /\ t.tid = nSet /\ t.query = query /\ t.requestCount = 1

\* C4 (amended): results of a query that is no longer current are never
\* added to docs: every document an operation adds to docs or changes in docs
\* was produced by a find issued for the current query; and the documents held
\* from the previous query stay only until the first page of the new query's
\* resolution is merged (for good if the LiveQuery is closed before that).
C4_NoStaleResultsAdded ==
  /\ closed \/ FirstPagePending \/ \A id \in DOMAIN docs : docsSrc[id] = query
  /\ \A id \in DOMAIN docs :
       (id \notin DOMAIN pre.docs \/ docs[id] # pre.docs[id]) =>
         docsSrc[id] = query

\* C4 witness: a new query is current, its first page is still awaited, and
\* docs still holds a document of the previous query that the new query does
\* not match.
C4_Witness ==
  /\ FirstPagePending
  /\ ~closed
  /\ \E id \in DOMAIN docs :
       /\ docsSrc[id] # query
       /\ ~SelectorMatches(QueryDef(query), id, docs[id].f)

\* C5 (as claimed): after the listener has handled a change for id X under
\* the live query, X is in docs exactly if the stored document X was among
\* the query's results when the point query read the store.
C5_PointQueryAuthoritative ==
  ResumedLive("resumePoint") =>
    (lastOp.id \in DOMAIN docs <=> lastOp.task.matched)

\* C6 (as claimed): a point query with zero results for an id that is not in
\* docs dispatches no event and leaves docs unchanged.
C6_ZeroResultsUntrackedIgnored ==
  (/\ ResumedLive("resumePoint")
   /\ lastOp.n = 0
   /\ lastOp.id \notin DOMAIN pre.docs) =>
    (lastEvents = <<>> /\ docs = pre.docs)

EventRank(type) ==
  CASE type = "exit" -> 1
    [] type = "enter" -> 2
    [] type = "update" -> 3
    [] type = "afterchange" -> 4

\* C7: the events of one processDocs invocation (called directly, by a page
\* merge or by setQuery(undefined)) are dispatched in the order exit, enter,
\* update, afterchange; in particular exit precedes enter.
C7_ExitEnterUpdateOrder ==
  lastOp.op \in {"processDocs", "resumeSetQuery", "setQuery"} =>
    \A i, j \in DOMAIN lastEvents :
      i < j => EventRank(lastEvents[i].type) < EventRank(lastEvents[j].type)

\* C7 witness: one processDocs invocation dispatched an exit event, an enter
\* event and the afterchange event.
C7_Witness ==
  /\ lastOp.op = "processDocs"
  /\ \A type \in {"exit", "enter", "afterchange"} :
       \E i \in DOMAIN lastEvents : lastEvents[i].type = type

\* An enter, update or exit event was dispatched by the last operation.
DeltaDispatched ==
  \E i \in DOMAIN lastEvents : IsDeltaType(lastEvents[i].type)

\* C8: an operation that changes docs or dispatches an enter, update or exit
\* event dispatches exactly one afterchange event, as its last event, after
\* docs was updated and carrying the updated docs; its enter, update and exit
\* events were dispatched before the update.
C8_AfterChangeOncePostMutation ==
  (docs # pre.docs \/ DeltaDispatched) =>
    LET n == Len(lastEvents)
    IN  /\ n >= 2
        /\ lastEvents[n].type = "afterchange"
        /\ lastEvents[n].detail = docs
        /\ lastEvents[n].docsAt = docs
        /\ \A i \in 1..(n - 1) :
             /\ IsDeltaType(lastEvents[i].type)
             /\ lastEvents[i].docsAt = pre.docs

\* C8 witness: a page merge dispatched exit, enter and then afterchange with
\* the new docs.
C8_Witness ==
  /\ lastOp.op = "resumeSetQuery"
  /\ Len(lastEvents) = 3
  /\ lastEvents[1].type = "exit"
  /\ lastEvents[2].type = "enter"
  /\ lastEvents[3].type = "afterchange"
  /\ lastEvents[3].detail = docs
  /\ docs # pre.docs

\* C9 (as claimed): every enter, update and exit event carries its documents
\* keyed by their own ids.
C9_EventsKeyedById ==
  \A i \in DOMAIN lastEvents :
    IsDeltaType(lastEvents[i].type) =>
      \A k \in DOMAIN lastEvents[i].detail : lastEvents[i].detail[k]._id = k

\* Nothing enters, updates or exits: each incoming document is either held at
\* the same revision and not deleted, or deleted and not held; and with
\* replace every held document is among the incoming ones.
NothingToDo(cur, incoming, replace) ==
  /\ \A i \in DOMAIN incoming :
       IF incoming[i]._id \in DOMAIN cur
       THEN ~incoming[i]._deleted /\ incoming[i]._rev = cur[incoming[i]._id]._rev
       ELSE incoming[i]._deleted
  /\ replace => \A id \in DOMAIN cur : \E i \in DOMAIN incoming : incoming[i]._id = id

\* C10: processDocs dispatches no event and leaves docs unchanged when
\* nothing enters, updates or exits.
C10_NothingToDoNoEvent ==
  (lastOp.op = "processDocs"
     /\ NothingToDo(pre.docs, lastOp.incoming, lastOp.replace)) =>
    (lastEvents = <<>> /\ docs = pre.docs)

\* C10 witness: processDocs was handed a deleted document it does not hold
\* together with a held document at its held revision, and dispatched nothing.
C10_Witness ==
  /\ lastOp.op = "processDocs"
  /\ lastEvents = <<>>
  /\ \E i \in DOMAIN lastOp.incoming :
       lastOp.incoming[i]._deleted /\ lastOp.incoming[i]._id \notin DOMAIN docs
  /\ \E i \in DOMAIN lastOp.incoming :
       /\ lastOp.incoming[i]._id \in DOMAIN docs
       /\ lastOp.incoming[i]._rev = docs[lastOp.incoming[i]._id]._rev

\* The resolution of the latest setQuery call has just ended its paging loop
\* and subscribed: the call's promise resolves.
Resolved ==
  /\ lastOp.op = "resumeSetQuery"
  /\ lastOp.task.tid = nSet
  /\ disconnect = nSet

\* No other resolution of the current query object is or was under way: no
\* continuation of an earlier setQuery call with the same reference is
\* suspended, and no listener other than the held one is registered.
SoleResolution ==
  /\ \A t \in tasks : t.kind = "page" => t.query # query
  /\ \A i \in DOMAIN listeners : listeners[i].lid = disconnect

\* Number of documents the query matches, and the number of documents a
\* find of the query returns at most.
MatchCount(q) == Cardinality(QueryResultIds(store, q))
PageSize(q) == IF QueryDef(q).limit = 0 THEN DefaultLimit ELSE QueryDef(q).limit
CeilDiv(m, n) == (m + n - 1) \div n

\* C11: with no writes, when setQuery of a query without a limit resolves,
\* docs holds exactly the documents the query matches, each once, however
\* many pages the engine's default limit cut them into.
C11_PaginationComplete ==
  (Resolved /\ SoleResolution /\ nWrites = 0 /\ QueryDef(query).limit = 0) =>
    DocsExact

\* C11 witness: setQuery of a query without limit resolved with more
\* documents in docs than one find returns.
C11_Witness ==
  /\ Resolved
  /\ nWrites = 0
  /\ QueryDef(query).limit = 0
  /\ MatchCount(query) > DefaultLimit
  /\ Cardinality(DOMAIN docs) = MatchCount(query)

PageIds == {lastOp.task.result[i]._id : i \in DOMAIN lastOp.task.result}
EnterEvents == {i \in DOMAIN lastEvents : lastEvents[i].type = "enter"}

\* C13: for a query with limit L the limit is the page size: each page
\* merge advances skip by the number of documents received and dispatches
\* one enter event carrying the page's documents that were not held, at most
\* L of them (none for an empty page); with no writes, docs holds every
\* matching document when setQuery resolves.
C13_LimitIsPageSize ==
  (ResumedLive("resumeSetQuery") /\ QueryDef(lastOp.query).limit # 0) =>
    LET t == lastOp.task
        fresh == PageIds \ DOMAIN pre.docs
    IN  /\ lastOp.n <= QueryDef(lastOp.query).limit
        /\ Cardinality(EnterEvents) = (IF fresh = {} THEN 0 ELSE 1)
        /\ \A i \in EnterEvents :
             /\ DOMAIN lastEvents[i].detail = fresh
             /\ \A id \in fresh : lastEvents[i].detail[id] = StoredDoc(store, id)
        /\ disconnect = t.tid \/
             \E u \in tasks :
               /\ u.tid = t.tid
               /\ u.skip = t.skip + lastOp.n
               /\ u.requestCount = t.requestCount + 1
        /\ (Resolved /\ SoleResolution /\ nWrites = 0) => DocsExact

\* C13 witness: setQuery of a query with limit 1 resolved after two enter
\* events of one document each; the second page entered the second document.
C13_Witness ==
  /\ Resolved
  /\ nWrites = 0
  /\ QueryDef(query).limit = 1
  /\ Cardinality(DOMAIN docs) = 2
  /\ lastOp.task.requestCount = 3

\* C14: setQuery(undefined) on an open LiveQuery that holds documents
\* releases the change listener, dispatches one exit event carrying every
\* held document and then one afterchange event, leaves docs empty, and
\* starts no find and no listener.
C14_UnsetQueryExitsAll ==
  (/\ lastOp.op = "setQuery"
   /\ lastOp.query = NoQuery
   /\ ~pre.closed
   /\ pre.query # NoQuery
   /\ pre.docs # EmptyDocs) =>
    /\ lastEvents = <<Event("exit", pre.docs, pre.docs),
                      Event("afterchange", EmptyDocs, EmptyDocs)>>
    /\ docs = EmptyDocs
    /\ query = NoQuery
    /\ disconnect = NoListener
    /\ listeners = SelectSeq(pre.listeners, LAMBDA l : l.lid # pre.disconnect)
    /\ tasks = pre.tasks

\* C14 witness: setQuery(undefined) was called on a subscribed LiveQuery
\* holding two documents.
C14_Witness ==
  /\ lastOp.op = "setQuery"
  /\ lastOp.query = NoQuery
  /\ ~pre.closed
  /\ pre.disconnect # NoListener
  /\ pre.listeners # <<>>
  /\ Cardinality(DOMAIN pre.docs) = 2
  /\ Len(lastEvents) = 2

\* C15 (as claimed): no change event reaches a listener whose captured query
\* is not the LiveQuery's live query: the InternalError "Unexpected change
\* event from replaced query" is never thrown.
C15_ReplacedQueryErrorUnreachable == ReplacedQueryError \notin errors

\* The listener has just handled, under the live query, the change of a
\* document that was among the query's results when its point find read the
\* store.
HandledMatching ==
  /\ ResumedLive("resumePoint")
  /\ lastOp.task.matched

\* C16 (as claimed): when a tracked document is updated and still matches
\* the live query, the listener dispatches exactly one update event carrying
\* the new revision, then afterchange, and docs holds the new revision; no
\* enter and no exit event is dispatched.
C16_UpdateOfTrackedDoc ==
  (/\ HandledMatching
   /\ lastOp.id \in DOMAIN pre.docs
   /\ ~lastOp.task.changedDoc._deleted
   /\ lastOp.task.changedDoc._rev > pre.docs[lastOp.id]._rev) =>
    /\ Len(lastEvents) = 2
    /\ lastEvents[1].type = "update"
    /\ DOMAIN lastEvents[1].detail = {lastOp.id}
    /\ lastOp.id \in DOMAIN docs
    /\ lastEvents[1].detail[lastOp.id] = docs[lastOp.id]
    /\ docs[lastOp.id]._rev >= lastOp.task.changedDoc._rev
    /\ lastEvents[2].type = "afterchange"

\* An event of the given type that carries document doc was dispatched by
\* the last operation.
Carried(type, doc) ==
  \E i \in DOMAIN lastEvents :
    /\ lastEvents[i].type = type
    /\ \E k \in DOMAIN lastEvents[i].detail : lastEvents[i].detail[k] = doc

\* C17 (as claimed): a deletion change for a tracked id is handled at once,
\* with no point query: one exit event carrying the deleted document, then
\* afterchange, and the id leaves docs; and when a document that is not in
\* docs is created again and matches the live query, the listener dispatches
\* an enter event with it and adds it to docs.
C17_DirectExitThenReenter ==
  /\ (/\ lastOp.op = "change"
      /\ lastOp.flag
      /\ lastOp.id \in DOMAIN pre.docs
      /\ ~pre.closed
      /\ Len(pre.listeners) = 1
      /\ pre.listeners[1].query = pre.query) =>
       /\ Len(lastEvents) = 2
       /\ lastEvents[1].type = "exit"
       /\ Cardinality(DOMAIN lastEvents[1].detail) = 1
       /\ \A k \in DOMAIN lastEvents[1].detail :
            /\ lastEvents[1].detail[k]._id = lastOp.id
            /\ lastEvents[1].detail[k]._deleted
       /\ lastEvents[2].type = "afterchange"
       /\ lastOp.id \notin DOMAIN docs
       /\ tasks = pre.tasks
  /\ (/\ HandledMatching
      /\ lastOp.id \notin DOMAIN pre.docs
      /\ ~lastOp.task.changedDoc._deleted
      /\ lastOp.task.changedDoc._rev > 2) =>
       /\ lastOp.id \in DOMAIN docs
       /\ Carried("enter", docs[lastOp.id])

\* C18 (as claimed): when docs is empty after the resolution of the live
\* query and a new document that matches the query is inserted, the listener
\* dispatches exactly one enter event carrying exactly that document, then
\* afterchange, and docs holds the document.
C18_LaterAddedDocEnters ==
  (/\ HandledMatching
   /\ pre.docs = EmptyDocs
   /\ lastOp.task.changedDoc._rev = 1) =>
    /\ Len(lastEvents) = 2
    /\ lastEvents[1].type = "enter"
    /\ DOMAIN docs = {lastOp.id}
    /\ docs[lastOp.id]._id = lastOp.id
    /\ ~docs[lastOp.id]._deleted
    /\ lastEvents[1].detail = docs
    /\ lastEvents[2].type = "afterchange"

\* C19 (as claimed): close is idempotent and terminal: a further close does
\* nothing, and whatever runs on a closed LiveQuery (close, setQuery, the
\* resumption of a find or point query that was in flight) leaves it closed
\* and docs as it was.
C19_CloseTerminal ==
  pre.closed =>
    /\ closed
    /\ docs = pre.docs
    /\ lastOp.op = "close" => lastEvents = <<>>

\* C20 (as claimed): after close no listener of the LiveQuery remains on the
\* HeartDB, neither a change listener nor the close listener of the
\* constructor, and a setQuery on the closed LiveQuery neither changes query
\* nor issues a find.
C20_CloseDetaches ==
  /\ closed => (listeners = <<>> /\ HeartDbCloseListeners = {})
  /\ (pre.closed /\ lastOp.op = "setQuery") =>
       (query = pre.query /\ tasks = pre.tasks)

\* ------------------------------------------------------------------------
\* Properties of the event target. cetOp, cetLog and cetPre describe the
\* call that led to the state.
\* ------------------------------------------------------------------------
\* The registry ls holds the callback under the type.
Holds(ls, type, cb) == \E i \in 1..Len(ls[type]) : ls[type][i] = cb

\* C21: addEventListener throws, and leaves the registry as it was, when the
\* target is closed or the callback is already registered for that type; a
\* callback that is registered under other types only is added.
C21_AddRejectsDuplicateAndClosed ==
  cetOp.op = "add" =>
    LET was == Holds(cetPre.listeners, cetOp.type, cetOp.cb)
    IN  /\ cetPre.closed =>
             cetOp.thrown = ClosedError /\ cetListeners = cetPre.listeners
        /\ ~cetPre.closed /\ was =>
             cetOp.thrown = DuplicateError /\ cetListeners = cetPre.listeners
        /\ ~cetPre.closed /\ ~was =>
             /\ cetOp.thrown = NoError
             /\ Holds(cetListeners, cetOp.type, cetOp.cb)
             /\ \A ty \in EventTypes \ {cetOp.type} :
                  cetListeners[ty] = cetPre.listeners[ty]

\* A callback held under both types is added again under one of them: the
\* call throws the duplicate error and the registry is as it was.
C21_Witness ==
  /\ cetOp.op = "add"
  /\ cetOp.thrown = DuplicateError
  /\ \A ty \in EventTypes : Holds(cetListeners, ty, cetOp.cb)
  /\ cetListeners = cetPre.listeners

\* C22: a disconnect function never throws, whether the target is open or
\* closed, and removes no listener but its own.
C22_DisconnectNeverThrows ==
  cetOp.op = "disconnect" =>
    /\ cetOp.thrown = NoError
    /\ \A ty \in EventTypes, cb \in Callbacks :
         Holds(cetPre.listeners, ty, cb) /\ <<ty, cb>> # <<cetOp.type, cetOp.cb>>
           => Holds(cetListeners, ty, cb)
    /\ ~Holds(cetListeners, cetOp.type, cetOp.cb)

\* The number of times the last call notified the callback of the type.
Notified(type, cb) ==
  Cardinality({i \in 1..Len(cetLog) : cetLog[i] = <<type, cb>>})

\* C23: a close() call on an open target notifies each registered close
\* listener exactly once, also when a close listener calls close() itself;
\* a close() call on a closed target notifies no one; afterwards no listener
\* is left and closed is true, and no call makes a closed target open again.
C23_CloseNotifiesOnce ==
  /\ cetPre.closed => cetClosed
  /\ cetOp.op = "close" =>
       /\ cetClosed
       /\ cetListeners = NoListeners
       /\ \A cb \in Callbacks :
            Notified("close", cb) =
              IF ~cetPre.closed /\ Holds(cetPre.listeners, "close", cb)
              THEN 1 ELSE 0

\* C24: on a closed target addEventListener and dispatchEvent throw the
\* closed error.
C24_ClosedRejectsAddAndDispatch ==
  cetPre.closed /\ cetOp.op \in {"add", "dispatch"} =>
    cetOp.thrown = ClosedError

\* ------------------------------------------------------------------------
\* Properties of the change bus. busLog holds what each instance's client
\* listener, registered from the start, has received; busOp describes the
\* step that led to the state.
\* ------------------------------------------------------------------------
\* C25: the client listener of every instance receives each write at most
\* once and in the order of the engine's seq, whether the write reaches the
\* instance through its own feed, through the channel, or through both.
C25_EachWriteOnceInOrder ==
  \A c \in Contexts :
    \A i, j \in 1..Len(busLog[c]) :
      i < j => busLog[c][i].seq < busLog[c][j].seq

\* The number of postMessage calls instance c has made for the write seq.
PostsBy(c, seq) ==
  Cardinality({i \in 1..Len(busPosted) : busPosted[i] = <<c, seq>>})

\* The number of postMessage calls made for the write seq.
PostsFor(seq) ==
  Cardinality({i \in 1..Len(busPosted) : busPosted[i][2] = seq})

\* The client listener of the step's instance received the step's change last.
DispatchedLocally ==
  /\ busLog[busOp.ctx] # <<>>
  /\ busLog[busOp.ctx][Len(busLog[busOp.ctx])].seq = busOp.seq

\* The handlers of the bus: a change from the feed is posted once, as the
\* last message so far, and dispatched at the instance; a change from the
\* channel is dispatched at the instance and not posted.
HandlersRelayOnce ==
  /\ busOp.op = "feed" =>
       /\ busOp.posted = 1
       /\ busPosted # <<>>
       /\ busPosted[Len(busPosted)] = <<busOp.ctx, busOp.seq>>
       /\ DispatchedLocally
  /\ busOp.op = "channel" =>
       /\ busOp.posted = 0
       /\ DispatchedLocally

\* C26 as stated: the handlers relay once, and a write produces at most one
\* channel message whatever the number of instances.
C26_OneMessagePerWrite ==
  /\ HandlersRelayOnce
  /\ \A seq \in 1..nBusWrites : PostsFor(seq) <= 1

\* C26: the handlers relay once, and a write produces at most one channel
\* message per instance: one for each feed that reports it, none for its
\* arrival over the channel.
C26_OneMessagePerFeed ==
  /\ HandlersRelayOnce
  /\ \A c \in Contexts, seq \in 1..nBusWrites : PostsBy(c, seq) <= 1
  /\ \A seq \in 1..nBusWrites :
       PostsFor(seq) <= (IF busShared THEN Cardinality(Contexts) ELSE 1)

\* All feeds and channels have drained after writes that every feed
\* reported: each write was posted once by each instance, the last step
\* was a delivery over the channel, and no message is left in flight.
C26_Witness ==
  /\ busOp.op = "channel"
  /\ busShared
  /\ nBusWrites > 0
  /\ \A c \in Contexts : busFeed[c] = <<>> /\ busChannel[c] = <<>>
  /\ \A c \in Contexts, seq \in 1..nBusWrites : PostsBy(c, seq) = 1

\* The first instance's client listener has received the write seq.
SeenByCaller(seq) ==
  \E i \in 1..Len(busLog[Caller]) : busLog[Caller][i].seq = seq

\* C27: a put or post call that has resolved did so with the change of its
\* own write, after that change was dispatched at its instance; a call whose
\* write the engine refused has rejected.
C27_ResolvesWithOwnChange ==
  \A cid \in 1..Len(busCalls) :
    LET c == busCalls[cid]
    IN  /\ c.settled = "resolved" =>
             /\ c.own # 0
             /\ c.value.seq = c.own
             /\ SeenByCaller(c.own)
        /\ c.pc = "failed" => c.settled = "rejected"

\* C28: a post call resolves with the change whose id is the id of its
\* write's response and with nothing else: not before the response is known,
\* not with a change of another id; at the response the queued changes are
\* handled in arrival order, so a queue that holds the write's change
\* resolves the call with it; and once the response is known and the change
\* has been dispatched the call has resolved.
C28_PostResolvesWithResponseId ==
  \A cid \in 1..Len(busCalls) :
    LET c == busCalls[cid]
        q == c.changeQueue
        hits == {i \in 1..Len(q) : q[i].id = PostId(cid)}
    IN  c.kind = "post" =>
          /\ c.settled = "resolved" =>
               /\ c.postResponse = PostId(cid)
               /\ c.value.id = c.postResponse
               /\ c.value.seq = c.own
          /\ (busOp.op = "response" /\ busOp.cid = cid /\ hits # {}) =>
               /\ c.settled = "resolved"
               /\ \E i \in hits : c.value = q[i] /\ \A j \in hits : i <= j
          /\ (c.pc = "done" /\ SeenByCaller(c.own)) => c.settled = "resolved"

\* Two post calls. The response of one arrived before its change was
\* dispatched: it resolved from the listener, its queue empty. The response
\* of the other arrives after two changes were queued, one of another
\* document first and then its own: the replay resolves it with the second.
C28_Witness ==
  /\ busOp.op = "response"
  /\ LET c == busCalls[busOp.cid]
     IN  /\ c.settled = "resolved"
         /\ Len(c.changeQueue) >= 2
         /\ c.changeQueue[1].id # c.postResponse
         /\ c.value.id = c.postResponse
  /\ \E cid \in 1..Len(busCalls) :
       /\ busCalls[cid].kind = "post"
       /\ busCalls[cid].settled = "resolved"
       /\ busCalls[cid].changeQueue = <<>>

\* The call no longer has a "change" listener on the first instance.
Disconnected1(cid) ==
  \A i \in 1..Len(busListeners[Caller]) : busListeners[Caller][i].cid # cid

\* C29: when the engine refuses the write of a put or post call, the call
\* has rejected with the engine's error, its listener is gone from the
\* instance, and its queue is never handled: no response is ever set.
C29_FailureRejectsAndDisconnects ==
  \A cid \in 1..Len(busCalls) :
    LET c == busCalls[cid]
    IN  c.pc = "failed" =>
          /\ c.settled = "rejected"
          /\ c.error = (IF c.kind = "put" THEN ConflictError ELSE PostError)
          /\ Disconnected1(cid)
          /\ c.postResponse = NoId

\* ------------------------------------------------------------------------
\* Properties of the LiveDoc. ldOp, ldEvents and ldPre describe the step
\* that led to the state.
\* ------------------------------------------------------------------------
\* The two values are the same to a reader: both absent, or documents of
\* the same revision.
SameRevision(a, b) == a.rev = b.rev

\* C30: a step that hands setDoc a value identical to the current one, the
\* revision doc already holds or absent when doc is absent, dispatches no
\* set event and leaves doc as it was.
C30_SameValueNoSetEvent ==
  (ldOp.delivered /\ ~ldPre.closed /\ SameRevision(ldOp.value, ldPre.doc)) =>
    ldEvents = <<>> /\ ldDoc = ldPre.doc

\* C31: the LiveDoc applies a change of its id as the change is dispatched,
\* a deletion making doc absent and any other change making doc the changed
\* document, and a change of another id leaves doc alone; so when a put of
\* the followed document that committed resolves, LiveDoc.doc is the
\* document that put wrote, or absent if it deleted it.
C31_PutResolvesWithDocWritten ==
  /\ (ldOp.op = "change" /\ ldOp.delivered) => ldDoc = ldOp.value
  /\ (ldOp.op = "change" /\ ~ldOp.delivered) => ldDoc = ldPre.doc
  /\ (ldPut.settled = "resolved" /\ ldPut.followed /\ ldPut.pc = "written") =>
       ldPut.seen.rev = (IF ldPut.deleted THEN 0 ELSE ldPut.own)

\* C32: LiveDoc.close() always succeeds, also on a HeartDB closed before it:
\* after it the LiveDoc is closed and its change listener is off the
\* HeartDB; and no step taken on a closed LiveDoc, the resolution of the
\* initial get included, changes doc or dispatches a set event.
C32_CloseSucceedsAndIsTerminal ==
  /\ ldOp.op = "close" => (~ldOp.thrown /\ ldClosed /\ ~ldConnected)
  /\ ldPre.closed => (ldClosed /\ ldDoc = ldPre.doc /\ ldEvents = <<>>)

\* C36: once the initial get has resolved and every committed change has
\* been dispatched to an open LiveDoc on an open HeartDB, doc has the
\* revision the database holds, or is absent if the document is deleted or
\* was never written.
C36_DocCurrentAfterGetAndChanges ==
  (ldGet.pc = "done" /\ ldFeed = <<>> /\ ~ldClosed /\ ~ldDbClosed) =>
    ldDoc.rev = (IF ldStore.deleted THEN 0 ELSE ldStore.rev)

\* C33: a find error in a setQuery resolution that a later setQuery has
\* superseded is swallowed, the promise of the superseded call does not
\* reject; a find error in the resolution of the current query rejects the
\* promise of its setQuery call.
C33_StaleFindErrorSwallowed ==
  /\ \A r \in rejected : r.kind = "page" => ~r.stale
  /\ (lastOp.op = "findFails" /\ ~lastOp.flag) =>
       \E r \in rejected : r.tid = lastOp.task.tid

\* C34: at all times the HeartDB holds at most one change listener of the
\* LiveQuery; a listener it holds is the one the stored disconnect handle
\* releases and was created for the current query. This includes the time
\* after setQuery(A), setQuery(B), setQuery(A) called while the first find
\* of A is pending.
C34_AtMostOneCurrentListener ==
  /\ Len(listeners) <= 1
  /\ \A i \in 1..Len(listeners) :
       listeners[i].lid = disconnect /\ listeners[i].query = query

\* The deletion of an id held in docs has just been handled as a direct exit.
DirectExitHandled ==
  /\ lastOp.op = "change"
  /\ lastOp.flag
  /\ lastOp.id \in DOMAIN pre.docs
  /\ lastOp.id \notin DOMAIN docs

\* A point query of the id of the last operation that has read the store,
\* is not preempted and is about to resume.
PendingPointQueries ==
  {t \in tasks : /\ t.kind = "point"
                 /\ t.pc = "found"
                 /\ t.id = lastOp.id
                 /\ ~(closed \/ query # t.query)}

\* C35: once the deletion of an id has been handled as a direct exit, no
\* point query still pending for an earlier change of that id puts the id
\* back into docs when it resumes; and no resumption of a point query
\* replaces a held document by an older revision.
C35_StalePointResultDiscarded ==
  /\ DirectExitHandled =>
       \A t \in PendingPointQueries :
         t.id \notin DOMAIN PointResult(docs, t.id, t.changedDoc, t.result).docs
  /\ (lastOp.op = "resumePoint" /\ lastOp.id \in DOMAIN docs
        /\ lastOp.id \in DOMAIN pre.docs) =>
       docs[lastOp.id]._rev >= pre.docs[lastOp.id]._rev

\* A consumer's own map after one event: an exit removes the keys of its
\* payload, an enter or update sets them.
ConsumerApply(map, e) ==
  IF e.type = "exit"
  THEN [k \in DOMAIN map \ DOMAIN e.detail |-> map[k]]
  ELSE IF e.type \in {"enter", "update"}
  THEN [k \in DOMAIN map \cup DOMAIN e.detail |->
          IF k \in DOMAIN e.detail THEN e.detail[k] ELSE map[k]]
  ELSE map

\* The consumer's map equals the payload of every afterchange event among
\* events, the map being `map` before the first of them.
RECURSIVE ConsumerAgrees(_, _)
ConsumerAgrees(map, events) ==
  IF events = <<>> THEN TRUE
  ELSE LET e == Head(events)
           next == ConsumerApply(map, e)
       IN  /\ e.type = "afterchange" => next = e.detail
           /\ ConsumerAgrees(next, Tail(events))

\* C37: a consumer that applies the payload of each event to a map of its
\* own, by key, holds docs at every afterchange event; no enter event names
\* an id that docs holds when it is dispatched and no exit event an id that
\* docs does not hold.
C37_ConsumerMapEqualsDocs ==
  /\ ConsumerAgrees(pre.docs, lastEvents)
  /\ \A i \in DOMAIN lastEvents :
       LET e == lastEvents[i]
       IN  /\ e.type = "enter" => DOMAIN e.detail \cap DOMAIN e.docsAt = {}
           /\ e.type = "exit" => DOMAIN e.detail \subseteq DOMAIN e.docsAt

\* The last operation merged a page for the current query.
PageMerged == ResumedLive("resumeSetQuery")

ExitEvents == {i \in DOMAIN lastEvents : lastEvents[i].type = "exit"}

\* C38: in a query transition the first page is merged with replace
\* semantics, every held document that is not in that page leaves docs
\* with an exit event, and every later page is merged incrementally, no
\* document leaves docs; so when the transition has resolved, with no
\* writes meanwhile, docs holds exactly the matches of the new query.
C38_OnlyFirstPageReplaces ==
  /\ (PageMerged /\ lastOp.task.requestCount = 1) =>
       /\ DOMAIN docs = PageIds
       /\ \A id \in DOMAIN pre.docs \ PageIds :
            \E i \in ExitEvents : id \in DOMAIN lastEvents[i].detail
  /\ (PageMerged /\ lastOp.task.requestCount > 1) =>
       /\ DOMAIN pre.docs \subseteq DOMAIN docs
       /\ ExitEvents = {}
  /\ (Resolved /\ SoleResolution /\ nWrites = 0) => DocsExact

\* C38 witness: the first page of a transition from a live query is merged;
\* a held document that is not in the page exits and a document of the page
\* enters.
C38_Witness ==
  /\ PageMerged
  /\ lastOp.task.requestCount = 1
  /\ ExitEvents # {}
  /\ EnterEvents # {}
  /\ pre.docs # EmptyDocs

\* The point queries that have read the store and will find their query
\* still live when they resume.
ReadyPointQueries ==
  {t \in tasks : t.kind = "point" /\ t.pc = "found"
                 /\ ~(closed \/ query # t.query)}

\* What a point query does to `cur` when it resumes.
Completion(cur, t) == PointResult(cur, t.id, t.changedDoc, t.result)

\* The enter, update and exit events among events: type and payload.
RECURSIVE Deltas(_)
Deltas(events) ==
  IF events = <<>> THEN <<>>
  ELSE IF IsDeltaType(Head(events).type)
       THEN <<[type |-> Head(events).type, detail |-> Head(events).detail]>>
              \o Deltas(Tail(events))
       ELSE Deltas(Tail(events))

\* C39: two pending point queries of different ids leave the same docs and
\* dispatch the same enter, update and exit events for each id whichever of
\* them resumes first.
C39_PointQueriesCommute ==
  \A t1 \in ReadyPointQueries, t2 \in ReadyPointQueries :
    t1.id # t2.id =>
      LET first1 == Completion(docs, t1)
          then2 == Completion(first1.docs, t2)
          first2 == Completion(docs, t2)
          then1 == Completion(first2.docs, t1)
      IN  /\ then2.docs = then1.docs
          /\ Deltas(first1.events) = Deltas(then1.events)
          /\ Deltas(first2.events) = Deltas(then2.events)
          /\ first1.errors = then1.errors
          /\ first2.errors = then2.errors

\* C39 witness: two point queries of different ids are pending with their
\* results, and each will dispatch an event of its own when it resumes.
C39_Witness ==
  \E t1 \in ReadyPointQueries, t2 \in ReadyPointQueries :
    /\ t1.id # t2.id
    /\ Deltas(Completion(docs, t1).events) # <<>>
    /\ Deltas(Completion(docs, t2).events) # <<>>
    /\ Completion(docs, t1).events[1].type # "exit"
    /\ Completion(docs, t2).events[1].type # "exit"

\* Live(q): the change listener of the current query is on the HeartDB and the
\* stored handle releases it. Unset: no query, no listener, nothing held.
LiveOrUnset ==
  IF query = NoQuery
  THEN listeners = <<>> /\ disconnect = NoListener /\ docs = EmptyDocs
  ELSE /\ disconnect # NoListener
       /\ \E i \in DOMAIN listeners :
            listeners[i].lid = disconnect /\ listeners[i].query = query

\* C40: on an open LiveQuery over an unchanging store, every find call
\* returning, the resolutions started by the setQuery calls come to an end:
\* from some point on no continuation is pending and the LiveQuery is Live
\* with the listener of the query set last, or Unset without listener if
\* the last call unset the query.
C40_SetQueryTerminates == <>[](tasks = {} /\ LiveOrUnset)

\* C40 witness: the last setQuery has resolved after several pages and its
\* listener is on the HeartDB.
C40_Witness ==
  /\ Resolved
  /\ nSet = MaxSetQuery
  /\ tasks = {}
  /\ query # NoQuery
  /\ lastOp.task.requestCount > 2
  /\ LiveOrUnset
====
